---- MODULE Spec2Model ----
(***************************************************************************)
(* A model of qtranscode (src/qtranscode.py): the command builders, the    *)
(* chapter slicer AVExtractor.extract_chapters, the pipe transcoder        *)
(* transcode() and the pipeline of main().                                 *)
(*                                                                         *)
(* Python values.  A number or None is a record [t, v]: t is "none", "int" *)
(* or "float" and v the (integral) value.  A path is a string, the absent  *)
(* path is NoPath.  A list given by an nargs option is a sequence, the     *)
(* absent list is <<>>.  A command is a sequence of strings, one per       *)
(* argv element.  A raised exception is carried as its class name.         *)
(***************************************************************************)
EXTENDS Integers, Sequences, FiniteSets, TLC

VARIABLES
    \* ---- main(): the command line and the world it runs in
    cl,               \* command_line, the parsed arguments
    src,              \* what the source and the host look like to the probes
    \* ---- main(): locals
    pc,               \* position in main()
    out_container,    \* out_container
    output,           \* output
    extractor,        \* the AVExtractor instance ([made |-> FALSE] before line 614)
    work_dir,         \* the TemporaryDirectory: "none", "present", "removed"
    chapters_path, attachments_path, subtitles_path, audio_path, video_path,
    enc_cmd,          \* the last result of an encoder builder
    dec_cmd,          \* the decode command handed to transcode()
    video,            \* final_dimensions, sar, final_rate
    \* ---- transcode(): locals
    tc,               \* position in transcode()
    dec_proc, enc_proc,
    tc_log,           \* one record per call of transcode() that has ended
    \* ---- observable effects
    launched,         \* every external process started, in order
    warnings,         \* the WARNING lines printed
    chapter_file,     \* what extract_chapters wrote
    status,           \* how main() ended: "running", "return 0", "return 1" or an exception
    \* ---- direct calls of the builders and of the chapter slicer
    call,             \* the arguments of the call
    ret               \* its result

mainVars == <<cl, src, pc, out_container, output, extractor, work_dir,
              chapters_path, attachments_path, subtitles_path, audio_path,
              video_path, enc_cmd, dec_cmd, video, tc, dec_proc, enc_proc,
              tc_log, launched, warnings, chapter_file, status>>
callVars == <<call, ret>>
vars == <<mainVars, callVars>>

(***************************************************************************)
(* Python values                                                           *)
(***************************************************************************)
None == [t |-> "none", v |-> 0]
PyInt(n) == [t |-> "int", v |-> n]
PyFloat(n) == [t |-> "float", v |-> n]
IsNone(x) == x.t = "none"
NoPath == "<None>"
devnull == "/dev/null"

\* str() of a number or None; a float prints with its fraction digit.
str(x) ==
    CASE x.t = "none"  -> "None"
      [] x.t = "int"   -> ToString(x.v)
      [] x.t = "float" -> ToString(x.v) \o ".0"

\* round(num/den) for den > 0, ties to the even neighbour.
round(num, den) ==
    LET q == num \div den
        r == num % den
    IN  IF 2 * r < den THEN q
        ELSE IF 2 * r > den THEN q + 1
        ELSE IF q % 2 = 0 THEN q ELSE q + 1

abs(n) == IF n < 0 THEN -n ELSE n

\* math.gcd for a, b >= 0.
RECURSIVE gcd(_, _)
gcd(a, b) == IF b = 0 THEN a ELSE gcd(b, a % b)

\* fractions.Fraction(n, d): reduced to lowest terms with the sign in the
\* numerator; a denominator of zero raises.
Fraction(n, d) ==
    IF d = 0 THEN [exc |-> "ZeroDivisionError"]
    ELSE [numerator |-> ((IF d < 0 THEN -n ELSE n) \div gcd(abs(n), abs(d))),
          denominator |-> abs(d) \div gcd(abs(n), abs(d))]

\* Whether the construction of a fraction raised.
Failed(f) == "exc" \in DOMAIN f

\* posixpath.join(dir, name).
join(dir, name) ==
    IF name # "" /\ Head(name) = "/" THEN name
    ELSE IF dir = "" \/ SubSeq(dir, Len(dir), Len(dir)) = "/" THEN dir \o name
    ELSE dir \o "/" \o name

\* path.split('/'), with cur the component being read.
RECURSIVE split(_, _)
split(path, cur) ==
    IF path = "" THEN <<cur>>
    ELSE IF Head(path) = "/" THEN <<cur>> \o split(Tail(path), "")
    ELSE split(Tail(path), cur \o Head(path))

\* The loop of posixpath.normpath over the components: empty ones and '.'
\* are dropped, '..' removes the component before it where there is one.
RECURSIVE collapse(_, _, _)
collapse(comps, new_comps, rooted) ==
    IF comps = <<>> THEN new_comps
    ELSE LET comp == Head(comps)
             n == Len(new_comps)
         IN  IF comp \in {"", "."} THEN collapse(Tail(comps), new_comps, rooted)
             ELSE IF comp # ".." \/ (~rooted /\ n = 0) \/ (n > 0 /\ new_comps[n] = "..")
             THEN collapse(Tail(comps), Append(new_comps, comp), rooted)
             ELSE IF n > 0 THEN collapse(Tail(comps), SubSeq(new_comps, 1, n - 1), rooted)
             ELSE collapse(Tail(comps), new_comps, rooted)

\* '/'.join(comps).
RECURSIVE slash_join(_)
slash_join(comps) ==
    IF comps = <<>> THEN ""
    ELSE IF Len(comps) = 1 THEN comps[1]
    ELSE comps[1] \o "/" \o slash_join(Tail(comps))

\* posixpath.normpath(path).
normpath(path) ==
    IF path = "" THEN "."
    ELSE LET rooted == Head(path) = "/"
             two == /\ Len(path) >= 2 /\ SubSeq(path, 1, 2) = "//"
                    /\ ~(Len(path) >= 3 /\ SubSeq(path, 1, 3) = "///")
             body == slash_join(collapse(split(path, ""), <<>>, rooted))
             whole == (IF two THEN "//" ELSE IF rooted THEN "/" ELSE "") \o body
         IN  IF whole = "" THEN "." ELSE whole

\* Python integers beyond the range of the checker's numbers are held as the
\* list of their decimal digits, least significant first.
RECURSIVE digits(_)
digits(n) == IF n < 10 THEN <<n>> ELSE <<n % 10>> \o digits(n \div 10)

\* ds * f + carry, for a factor f of at most 2^16.
RECURSIVE times(_, _, _)
times(ds, f, carry) ==
    IF ds = <<>> THEN (IF carry = 0 THEN <<>> ELSE digits(carry))
    ELSE <<(f * Head(ds) + carry) % 10>> \o times(Tail(ds), f, (f * Head(ds) + carry) \div 10)

\* ds * 2^k.
RECURSIVE shifted(_, _)
shifted(ds, k) ==
    IF k > 16 THEN shifted(times(ds, 2^16, 0), k - 16) ELSE times(ds, 2^k, 0)

\* ds + 1.
RECURSIVE plus_one(_)
plus_one(ds) ==
    IF ds = <<>> THEN <<1>>
    ELSE IF Head(ds) < 9 THEN <<Head(ds) + 1>> \o Tail(ds)
    ELSE <<0>> \o plus_one(Tail(ds))

reversed(s) == [i \in 1..Len(s) |-> s[Len(s) + 1 - i]]

\* Long division by two from the most significant digit down.
RECURSIVE half_from_top(_, _)
half_from_top(top, rem) ==
    IF top = <<>> THEN <<>>
    ELSE <<(10 * rem + Head(top)) \div 2>> \o half_from_top(Tail(top), Head(top) % 2)

\* ds // 2.
half(ds) ==
    LET h == reversed(half_from_top(reversed(ds), 0))
    IN  IF Len(h) > 1 /\ h[Len(h)] = 0 THEN SubSeq(h, 1, Len(h) - 1) ELSE h

\* str() of such an integer.
RECURSIVE numeral(_)
numeral(ds) ==
    IF Len(ds) = 1 THEN ToString(ds[1]) ELSE numeral(Tail(ds)) \o ToString(ds[1])

\* int() of one decimal digit.
digit(ch) ==
    CASE ch = "0" -> 0 [] ch = "1" -> 1 [] ch = "2" -> 2 [] ch = "3" -> 3 [] ch = "4" -> 4
      [] ch = "5" -> 5 [] ch = "6" -> 6 [] ch = "7" -> 7 [] ch = "8" -> 8 [] ch = "9" -> 9

\* The digits of a decimal numeral.
RECURSIVE digits_of(_)
digits_of(text) ==
    IF text = "" THEN <<>> ELSE digits_of(Tail(text)) \o <<digit(Head(text))>>

\* A fraction whose terms are beyond the checker's numbers carries them as
\* their decimal numerals and is marked wide.
IsWide(f) == "wide" \in DOMAIN f
numerator_str(f) == IF IsWide(f) THEN f.numerator ELSE ToString(f.numerator)
denominator_str(f) == IF IsWide(f) THEN f.denominator ELSE ToString(f.denominator)

\* The exponent k with 2^52 <= n / d * 2^k < 2^53, for n, d > 0.
RECURSIVE mantissa_shift(_, _, _)
mantissa_shift(n, d, k) ==
    IF n < d THEN mantissa_shift(2 * n, d, k + 1)
    ELSE IF n >= 2 * d THEN mantissa_shift(n, 2 * d, k - 1)
    ELSE k

\* m / 2^k in lowest terms, as the pair of m and k.
RECURSIVE lowest_terms(_, _)
lowest_terms(m, k) ==
    IF k > 0 /\ Head(m) % 2 = 0 THEN lowest_terms(half(m), k - 1) ELSE <<m, k>>

\* fractions.Fraction(float(text)) for a decimal text of n thousandths,
\* n > 0: the binary double nearest to n/1000 (53 significant bits, a tie
\* to the even mantissa), exactly, in lowest terms.
Fraction_of_float(n) ==
    LET k == mantissa_shift(n, 1000, 52)
        scaled == shifted(digits(n), k)
        rest == scaled[1] + 10 * scaled[2] + 100 * scaled[3]
        q == SubSeq(scaled, 4, Len(scaled))
        m == IF rest > 500 \/ (rest = 500 /\ Head(q) % 2 = 1) THEN plus_one(q) ELSE q
        low == lowest_terms(m, k)
    IN  IF rest = 0
        THEN Fraction(n, 1000)
        ELSE [numerator |-> numeral(low[1]),
              denominator |-> numeral(shifted(<<1>>, low[2])),
              wide |-> TRUE]

\* Fraction * 2 (line 739).  The denominator of a wide fraction is a power
\* of two.
times_two(f) ==
    IF ~IsWide(f) THEN Fraction(2 * f.numerator, f.denominator)
    ELSE IF f.denominator = "1"
    THEN [f EXCEPT !.numerator = numeral(times(digits_of(f.numerator), 2, 0))]
    ELSE [f EXCEPT !.denominator = numeral(half(digits_of(f.denominator)))]

\* ':'.join(map(str, xs)) and friends, for a non-empty list of integers.
RECURSIVE JoinInts(_, _)
JoinInts(sep, xs) ==
    IF Len(xs) = 1 THEN ToString(xs[1])
    ELSE ToString(xs[1]) \o sep \o JoinInts(sep, Tail(xs))

RECURSIVE JoinStrs(_, _)
JoinStrs(sep, xs) ==
    IF xs = <<>> THEN ""
    ELSE IF Len(xs) = 1 THEN xs[1]
    ELSE xs[1] \o sep \o JoinStrs(sep, Tail(xs))

Range(s) == {s[i] : i \in DOMAIN s}

\* The result of a builder: the command, or the exception it raised.
Returned(cmd) == [exc |-> "none", cmd |-> cmd]
Raised(e) == [exc |-> e, cmd |-> <<>>]

\* multiprocessing.cpu_count() on the host, as printed.
cpu_count == "4"

(***************************************************************************)
(* Audio encoders, lines 246-305                                           *)
(***************************************************************************)
\* installed: the encoders shutil.which() finds on the host.
get_encode_aac_command(out_path, quality, bitrate, installed) ==
    IF ~IsNone(quality) /\ ~IsNone(bitrate) THEN Raised("AssertionError")
    ELSE IF "fdkaac" \in installed THEN
        Returned(<<"fdkaac", "--ignorelength">>
            \o (IF ~IsNone(quality) THEN <<"-m", ToString(round(4 * quality.v + 10, 10))>>
                ELSE IF ~IsNone(bitrate) THEN <<"-m", "0", "-b", str(bitrate)>>
                ELSE <<"-m", "4">>)
            \o <<"-o", out_path, "-">>)
    ELSE IF "neroAacEnc" \in installed THEN
        Returned(<<"neroAacEnc", "-ignorelength">>
            \o (IF ~IsNone(quality) THEN <<"-q", ToString(round(quality.v, 10))>>
                ELSE IF ~IsNone(bitrate) THEN <<"-br", str(bitrate)>>
                ELSE <<>>)
            \o <<"-if", "-", "-of", out_path>>)
    ELSE IF "faac" \in installed THEN
        Returned(<<"faac", "--ignorelength">>
            \o (IF ~IsNone(quality) THEN <<"-q", ToString(499 * quality.v + 10)>>
                ELSE IF ~IsNone(bitrate) THEN <<"-b", str(bitrate)>>
                ELSE <<>>)
            \o <<"-o", out_path, "-">>)
    ELSE Raised("Exception: No AAC encoder!")

get_encode_flac_command(out_path) ==
    Returned(<<"flac", "--ignore-chunk-sizes", "-o", out_path, "-">>)

\* The second parameter is bitrate and the third is quality (line 277).
get_encode_mp3_command(out_path, bitrate, quality) ==
    IF ~IsNone(quality) /\ ~IsNone(bitrate) THEN Raised("AssertionError")
    ELSE Returned(<<"lame">>
            \o (IF ~IsNone(quality) THEN <<"-V", ToString(10 - quality.v)>>
                ELSE IF ~IsNone(bitrate) THEN <<"-b", str(bitrate)>>
                ELSE <<>>)
            \o <<"-", out_path>>)

get_encode_opus_command(out_path, quality, bitrate) ==
    Returned(<<"opusenc", "--ignorelength", "--discard-comments">>
        \o (IF ~IsNone(bitrate)
            THEN IF ~IsNone(quality) THEN <<"--vcbr", "--bitrate", str(bitrate)>>
                 ELSE <<"--bitrate", str(bitrate)>>
            ELSE <<"--vbr">>)
        \o <<"-", out_path>>)

get_encode_vorbis_command(out_path, quality, bitrate) ==
    IF ~IsNone(quality) /\ ~IsNone(bitrate) THEN Raised("AssertionError")
    ELSE Returned(<<"oggenc", "--ignorelength", "--discard-comments">>
            \o (IF ~IsNone(quality) THEN <<"-q", str(quality)>>
                ELSE IF ~IsNone(bitrate) THEN <<"-b", str(bitrate)>>
                ELSE <<>>)
            \o <<"-o", out_path, "-">>)

(***************************************************************************)
(* Video encoders, lines 314-419                                           *)
(***************************************************************************)
\* The two assertions every video builder starts with (lines 315-316).
PassAssertionsHold(cur_pass, stat_path) ==
    /\ ~(~IsNone(cur_pass) /\ stat_path # NoPath)
    /\ (IsNone(cur_pass) \/ cur_pass.v = 1 \/ cur_pass.v = 2)

get_encode_av1_command(out_path, dimensions, framerate, quality, bitrate, speed, cur_pass, stat_path) ==
    IF ~PassAssertionsHold(cur_pass, stat_path) THEN Raised("AssertionError")
    ELSE LET qual_args ==
                 IF ~IsNone(quality)
                 THEN <<"--rc", "0", "--qp", ToString(round(630 - 63 * quality.v, 10))>>
                 ELSE IF ~IsNone(bitrate) THEN <<"--rc", "1", "--tbr", str(bitrate)>>
                 ELSE <<>>
             pass_args ==
                 IF ~IsNone(cur_pass) /\ cur_pass.v = 1
                 THEN <<"-b", devnull, "--irefresh-type", "2", "--pass", "1", "--stat-file", stat_path>>
                 ELSE IF ~IsNone(cur_pass) /\ cur_pass.v = 2
                 THEN <<"-b", out_path, "--irefresh-type", "2", "--pass", "2", "--stat-file", stat_path>>
                 ELSE <<"-b", out_path>>
         IN  Returned(<<"SvtAv1EncApp", "-i", "stdin",
                        "-w", ToString(dimensions[1]), "-h", ToString(dimensions[2]),
                        "--fps-num", numerator_str(framerate),
                        "--fps-denom", denominator_str(framerate),
                        "--preset", str(speed)>> \o qual_args \o pass_args)

get_encode_h264_command(out_path, dimensions, framerate, sar, quality, bitrate, speed, cur_pass, stat_path) ==
    IF ~PassAssertionsHold(cur_pass, stat_path) THEN Raised("AssertionError")
    ELSE LET qual_args ==
                 IF ~IsNone(quality)
                 THEN <<"--crf", ToString(round(510 - 51 * quality.v, 10))>>
                 ELSE IF ~IsNone(bitrate) THEN <<"--bitrate", str(bitrate)>>
                 ELSE <<>>
             pass_args ==
                 IF ~IsNone(cur_pass) /\ cur_pass.v = 1
                 THEN <<"--pass", "1", "--stats", stat_path, "--output", devnull>>
                 ELSE IF ~IsNone(cur_pass) /\ cur_pass.v = 2
                 THEN <<"--pass", "2", "--stats", stat_path, "--output", out_path>>
                 ELSE <<"--output", out_path>>
         IN  Returned(<<"x264", "--profile", "high", "--level", "4.2", "--bluray-compat",
                        "--muxer", "raw", "--demuxer", "raw", "--input-csp", "i420",
                        "--input-res", ToString(dimensions[1]) \o "x" \o ToString(dimensions[2]),
                        "--sar", ToString(sar.numerator) \o ":" \o ToString(sar.denominator),
                        "--fps", numerator_str(framerate) \o "/" \o denominator_str(framerate),
                        "-">> \o qual_args \o pass_args)

\* speed_args of the two vpxenc builders (lines 370-376, 405-411).
vpx_speed_args(speed) ==
    IF IsNone(speed) THEN <<>>
    ELSE IF speed.v = 0 THEN <<"--best">>
    ELSE IF speed.v = 1 THEN <<"--good">>
    ELSE IF speed.v = 2 THEN <<"--rt">>
    ELSE <<>>

\* pass_args of the two vpxenc builders (lines 378-382, 413-417); called with
\* a stat_path that is a string.
vpx_pass_args(out_path, cur_pass, stat_path) ==
    IF ~IsNone(cur_pass) /\ cur_pass.v = 1
    THEN <<"--output=" \o devnull, "--passes=2", "--pass=1", "--fpf=" \o stat_path, "--auto-alt-ref=1">>
    ELSE IF ~IsNone(cur_pass) /\ cur_pass.v = 2
    THEN <<"--output=" \o out_path, "--passes=2", "--pass=2", "--fpf=" \o stat_path, "--auto-alt-ref=1">>
    ELSE <<"--output=" \o out_path, "--passes=1">>

vpx_size_args(dimensions, framerate) ==
    <<"--ivf", "--width=" \o ToString(dimensions[1]), "--height=" \o ToString(dimensions[2]),
      "--fps=" \o numerator_str(framerate) \o "/" \o denominator_str(framerate)>>

\* Lines 357-368: the second and third statements assign qual_args anew, so
\* the last one that runs decides it.
vp9_qual_args(quality, bitrate) ==
    LET mode == IF ~IsNone(quality) /\ ~IsNone(bitrate) THEN <<"--end-usage=cq">>
                ELSE IF ~IsNone(quality) THEN <<"--end-usage=q">>
                ELSE IF ~IsNone(bitrate) THEN <<"--end-usage=vbr">>
                ELSE <<>>
        afterQuality == IF ~IsNone(quality)
                        THEN <<"--cq-level=" \o ToString(round(630 - 63 * quality.v, 10))>>
                        ELSE mode
    IN  IF ~IsNone(bitrate) THEN <<"--target-bitrate=" \o str(bitrate)>> ELSE afterQuality

\* Lines 391-403: the later statements extend qual_args.
vp8_qual_args(quality, bitrate) ==
    (IF ~IsNone(quality) /\ ~IsNone(bitrate) THEN <<"--end-usage=cq">>
     ELSE IF ~IsNone(quality) THEN <<"--end-usage=q">>
     ELSE IF ~IsNone(bitrate) THEN <<"--end-usage=vbr">>
     ELSE <<>>)
    \o (IF ~IsNone(quality)
        THEN <<"--cq-level=" \o ToString(round(630 - 63 * quality.v, 10))>> ELSE <<>>)
    \o (IF ~IsNone(bitrate) THEN <<"--target-bitrate=" \o str(bitrate)>> ELSE <<>>)

get_encode_vp9_command(out_path, dimensions, framerate, quality, bitrate, speed, cur_pass, stat_path) ==
    IF ~PassAssertionsHold(cur_pass, stat_path) THEN Raised("AssertionError")
    ELSE IF ~IsNone(cur_pass) /\ stat_path = NoPath THEN Raised("TypeError")
    ELSE Returned(<<"vpxenc", "--codec=vp9", "--threads=" \o cpu_count>>
            \o vpx_pass_args(out_path, cur_pass, stat_path)
            \o vpx_size_args(dimensions, framerate)
            \o vp9_qual_args(quality, bitrate) \o vpx_speed_args(speed) \o <<"-">>)

get_encode_vp8_command(out_path, dimensions, framerate, quality, bitrate, speed, cur_pass, stat_path) ==
    IF ~PassAssertionsHold(cur_pass, stat_path) THEN Raised("AssertionError")
    ELSE IF ~IsNone(cur_pass) /\ stat_path = NoPath THEN Raised("TypeError")
    ELSE Returned(<<"vpxenc", "--codec=vp8", "--threads=" \o cpu_count>>
            \o vpx_pass_args(out_path, cur_pass, stat_path)
            \o vpx_size_args(dimensions, framerate)
            \o vp8_qual_args(quality, bitrate) \o vpx_speed_args(speed) \o <<"-">>)

(***************************************************************************)
(* Chapter text.  A line of the simple chapter format is a record: kind    *)
(* says which of the three regular expressions of lines 46-48 it matches   *)
(* ("time": CHAPTERnn=HH:MM:SS.mmm, "label": CHAPTERnnNAME=Chapter N,      *)
(* "title": CHAPTERnnNAME=<text>), and the other fields hold the matched   *)
(* groups as the strings they are in the text.                             *)
(***************************************************************************)
MaxNumeral == 999

\* The decimal numerals int() is applied to: at most three digits, with or
\* without leading zeros.
Numerals ==
    UNION {{ToString(n), "0" \o ToString(n), "00" \o ToString(n)} : n \in 0..MaxNumeral}

\* int(s) for a numeral s.
int == [s \in Numerals |->
          CHOOSE n \in 0..MaxNumeral : s \in {ToString(n), "0" \o ToString(n), "00" \o ToString(n)}]

\* str(n).zfill(w) for w = 2 and w = 3: zeros are added on the left up to the
\* width, after the sign.
zfill2(n) == IF 0 <= n /\ n <= 9 THEN "0" \o ToString(n) ELSE ToString(n)
zfill3(n) ==
    IF 0 <= n /\ n <= 9 THEN "00" \o ToString(n)
    ELSE IF 10 <= n /\ n <= 99 THEN "0" \o ToString(n)
    ELSE IF -9 <= n /\ n <= -1 THEN "-0" \o ToString(-n)
    ELSE ToString(n)

TimeLine(idx, hh, mm, ss, ms) ==
    [kind |-> "time", idx |-> idx, hh |-> hh, mm |-> mm, ss |-> ss, ms |-> ms, name |-> ""]
LabelLine(idx, num) ==
    [kind |-> "label", idx |-> idx, hh |-> "", mm |-> "", ss |-> "", ms |-> "", name |-> num]
TitleLine(idx, text) ==
    [kind |-> "title", idx |-> idx, hh |-> "", mm |-> "", ss |-> "", ms |-> "", name |-> text]

\* datetime.timedelta(hours, minutes, seconds, milliseconds), in milliseconds.
timedelta(hh, mm, ss, ms) == 3600000 * hh + 60000 * mm + 1000 * ss + ms

\* timedelta.seconds and timedelta.microseconds // 1000: the part of the
\* duration within its day.
td_seconds(t) == (t \div 1000) % 86400
td_millis(t) == t % 1000

\* Whether index i lies in the range (lines 157, 162, 166).
InRange(i, chap_start, chap_end) ==
    /\ (IsNone(chap_start) \/ i >= chap_start.v)
    /\ (IsNone(chap_end) \/ i <= chap_end.v)

\* The lines re.search finds for the start chapter (line 145).
StartMatches(chapters, chap_start) ==
    {k \in DOMAIN chapters :
        chapters[k].kind = "time" /\ chapters[k].idx = zfill2(chap_start.v)}

\* One step of the loop of lines 155-167: the lines one input line adds.
SliceLine(line, chap_start, chap_end, offset_index, offset_time) ==
    IF ~InRange(int[line.idx], chap_start, chap_end) THEN <<>>
    ELSE IF line.kind = "time" THEN
        LET new_time == timedelta(int[line.hh], int[line.mm], int[line.ss], int[line.ms]) - offset_time
        IN  <<TimeLine(zfill2(int[line.idx] - offset_index),
                       zfill2(td_seconds(new_time) \div 3600),
                       zfill2((td_seconds(new_time) \div 60) % 60),
                       zfill2(td_seconds(new_time) % 60),
                       zfill3(td_millis(new_time)))>>
    ELSE IF line.kind = "label" THEN
        <<LabelLine(zfill2(int[line.idx] - offset_index), zfill2(int[line.name] - offset_index))>>
    ELSE IF line.kind = "title" THEN
        <<TitleLine(zfill2(int[line.idx] - offset_index), line.name)>>
    ELSE <<>>

RECURSIVE SliceLines(_, _, _, _, _)
SliceLines(lines, chap_start, chap_end, offset_index, offset_time) ==
    IF lines = <<>> THEN <<>>
    ELSE SliceLine(Head(lines), chap_start, chap_end, offset_index, offset_time)
         \o SliceLines(Tail(lines), chap_start, chap_end, offset_index, offset_time)

\* AVExtractor.extract_chapters from line 141 on, given the text the
\* extraction tool printed: the text written to the file, or the exception.
extract_chapters(chapters, chap_start, chap_end) ==
    IF ~IsNone(chap_start) /\ StartMatches(chapters, chap_start) = {}
    THEN [exc |-> "Exception: Start chapter could not be found!", text |-> <<>>]
    ELSE LET offset_index == IF IsNone(chap_start) THEN 0 ELSE chap_start.v - 1
             first == CHOOSE k \in StartMatches(chapters, chap_start) :
                         \A j \in StartMatches(chapters, chap_start) : k <= j
             offset_time ==
                 IF IsNone(chap_start) THEN 0
                 ELSE timedelta(int[chapters[first].hh], int[chapters[first].mm],
                                int[chapters[first].ss], int[chapters[first].ms])
         IN  [exc |-> "none",
              text |-> SliceLines(chapters, chap_start, chap_end, offset_index, offset_time)]

(***************************************************************************)
(* AVExtractor: the constructor and the decode commands, lines 51-237      *)
(***************************************************************************)
\* os.path.splitext(path)[1].upper() == '.MKV' (line 101), on the suffixes
\* the model uses.
IsMkvSuffix(suffix) == suffix \in {".mkv", ".MKV", ".Mkv"}

\* __mplayer_input_args as the constructor leaves it at line 69.
mplayer_source_args(path, disc_type, disc_title, maid, msid) ==
    (IF ~IsNone(maid) THEN <<"-aid", str(maid)>> ELSE <<>>)
    \o (IF ~IsNone(msid) THEN <<"-sid", str(msid)>> ELSE <<>>)
    \o (IF disc_type = "dvd" THEN <<"-dvd-device", path, "dvd://" \o ToString(disc_title)>>
        ELSE IF disc_type = "bluray"
        THEN <<"-bluray-device", path, "bluray://" \o ToString(disc_title)>>
        ELSE <<path>>)

\* The '-chapter' arguments added at lines 93-99.
mplayer_chapter_args(chap_start, chap_end) ==
    IF ~IsNone(chap_start)
    THEN <<"-chapter",
           str(chap_start) \o (IF ~IsNone(chap_end) THEN "-" \o str(chap_end) ELSE "")>>
    ELSE IF ~IsNone(chap_end) THEN <<"-chapter", "-" \o str(chap_end)>>
    ELSE <<>>

\* Lines 78-82: fps is the probed rate in thousandths (mplayer prints three
\* decimals).  A rate within 1e-5 of ceil(rate)/1.001 becomes
\* ceil(rate)*1000/1001, any other rate the fraction its double is; the
\* division by a rate of zero raises.
probe_framerate(fps) ==
    LET c == (fps + 999) \div 1000
        diff == IF 1000000 * c >= 1001 * fps
                THEN 1000000 * c - 1001 * fps ELSE 1001 * fps - 1000000 * c
    IN  IF fps = 0 THEN [exc |-> "ZeroDivisionError"]
        ELSE IF diff <= (1001 * fps - 1) \div 100000
        THEN Fraction(c * 1000, 1001)
        ELSE Fraction_of_float(fps)

\* os.path.abspath(path) in the directory cwd (line 52).
abspath(cwd, path) == normpath(join(cwd, path))

\* An attribute the constructor did not set: reading it raises
\* AttributeError.
Unset == [t |-> "unset", v |-> 0]
IsUnset(x) == x.t = "unset"

\* AVExtractor.__init__ after both probes succeeded: the fields it sets, or
\* the exception that line 79 raises.
AVExtractor(path, suffix, disc_type, disc_title, chap_start, chap_end, maid, msid, probe) ==
    IF disc_type # "bluray" /\ probe.fps = 0
    THEN [made |-> FALSE, exc |-> probe_framerate(probe.fps).exc]
    ELSE
    [made |-> TRUE,
     path |-> abspath(probe.cwd, path),
     disc_type |-> disc_type,
     disc_title |-> disc_title,
     has_video |-> disc_type # "bluray",
     video_dimensions |-> IF disc_type # "bluray" THEN probe.dimensions ELSE <<>>,
     video_framerate |-> IF disc_type # "bluray" THEN probe_framerate(probe.fps)
                         ELSE Fraction(0, 1),
     audio_channels |-> probe.audio_channels,
     audio_codec |-> probe.audio_codec,
     chap_start |-> chap_start,
     chap_end |-> chap_end,
     mplayer_input_args |-> mplayer_source_args(path, disc_type, disc_title, maid, msid)
                            \o mplayer_chapter_args(chap_start, chap_end),
     is_matroska |-> IsMkvSuffix(suffix),
     has_chapters |-> IF disc_type = "dvd" THEN TRUE
                      ELSE IF IsMkvSuffix(suffix) THEN probe.chapters # <<>>
                      ELSE FALSE,
     attachment_cnt |-> IF disc_type # "dvd" /\ IsMkvSuffix(suffix)
                        THEN probe.attachment_cnt ELSE 0,
     has_subtitles |-> IF disc_type = "dvd" \/ IsMkvSuffix(suffix)
                       THEN probe.subtitles ELSE FALSE,
     mkv_subtitle_tracknum |-> IF disc_type # "dvd" /\ IsMkvSuffix(suffix) /\ probe.subtitles
                               THEN PyInt(probe.subtitle_track) ELSE Unset,
     mkv_audio_tracknum |-> IF disc_type # "dvd" /\ IsMkvSuffix(suffix)
                            THEN PyInt(probe.audio_track) ELSE Unset]

NoExtractor == [made |-> FALSE]

\* AVExtractor.decode_audio, lines 199-205: the command, or the exception
\* of reading the mkvmerge output where the constructor did not set it.
decode_audio(x) ==
    IF x.is_matroska /\ IsNone(x.chap_start) /\ IsNone(x.chap_end) /\ x.audio_codec = "ffflac"
    THEN IF IsUnset(x.mkv_audio_tracknum) THEN Raised("AttributeError")
         ELSE Returned(<<"mkvextract", "--redirect-output", "/dev/stderr", "tracks", x.path,
                         str(x.mkv_audio_tracknum) \o ":/dev/stdout">>)
    ELSE Returned(<<"mplayer", "-quiet", "-really-quiet", "-nocorrect-pts", "-vc", "null",
                    "-vo", "null", "-channels", ToString(x.audio_channels),
                    "-ao", "pcm:fast:waveheader:file=/dev/stdout">> \o x.mplayer_input_args)

\* The -vf argument of lines 209-230 as the list of its comma-separated
\* fields: appending ',x' to the string adds the field x, and appending
\* ',x,' adds the field x and an empty field.
video_filters(denoise, pp, scale, crop, deint, ivtc) ==
    <<"format=i420">>
    \o (IF ivtc
        THEN IF crop = <<>> THEN <<"filmdint=fast=0", "">>
             ELSE <<"filmdint=fast=0/crop=" \o JoinInts(":", crop)>>
        ELSE <<>>)
    \o (IF deint THEN <<"yadif=1">> ELSE <<>>)
    \o (IF crop # <<>> /\ ~ivtc THEN <<"crop=" \o JoinInts(":", crop)>> ELSE <<>>)
    \o (IF scale # <<>> THEN <<"scale=" \o JoinInts(":", scale)>> ELSE <<>>)
    \o (IF pp THEN <<"pp=ha/va/dr">> ELSE <<>>)
    \o (IF denoise THEN <<"hqdn3d">> ELSE <<>>)
    \o <<"harddup">>

\* A variant of lines 210-219 that tests the forced rate before the inverse
\* telecine.
video_ofps_rate_first(ivtc, force_rate) ==
    IF force_rate # <<>> THEN <<"-ofps", JoinInts("/", force_rate)>>
    ELSE IF ivtc THEN <<"-ofps", "24000/1001">>
    ELSE <<>>

\* The -ofps arguments of lines 210-219.
video_ofps(ivtc, force_rate) ==
    IF ivtc THEN <<"-ofps", "24000/1001">>
    ELSE IF force_rate # <<>> THEN <<"-ofps", JoinInts("/", force_rate)>>
    ELSE <<>>

\* AVExtractor.get_decode_video_command, lines 208-237.
get_decode_video_command(x, denoise, pp, scale, crop, deint, ivtc, force_rate, hardsub) ==
    <<"mencoder", "-quiet", "-really-quiet", "-sws", "9", "-vf",
      JoinStrs(",", video_filters(denoise, pp, scale, crop, deint, ivtc))>>
    \o video_ofps(ivtc, force_rate)
    \o <<"-ovc", "raw", "-of", "rawvideo", "-o", "-">>
    \o x.mplayer_input_args
    \o <<"-nosound">>
    \o (IF hardsub THEN <<"-ass">> ELSE <<"-nosub">>)

(***************************************************************************)
(* Multiplexers, lines 428-477.  The title and the language options are    *)
(* not given in the runs modelled, so their flags are absent.              *)
(***************************************************************************)
\* a < b for the decimal numerals of a and b compared as Python compares
\* strings: by the first character that differs, a proper prefix first.
RECURSIVE numeral_before(_, _)
numeral_before(a, b) ==
    IF a = <<>> THEN b # <<>>
    ELSE IF b = <<>> THEN FALSE
    ELSE IF Head(a) # Head(b) THEN Head(a) < Head(b)
    ELSE numeral_before(Tail(a), Tail(b))

\* sorted(glob.glob(os.path.join(attachments, '*'))) for a directory that
\* holds the files named by the numbers in present (line 435).
RECURSIVE sorted_glob(_, _)
sorted_glob(attachments, present) ==
    IF present = {} THEN <<>>
    ELSE LET first == CHOOSE a \in present : \A b \in present \ {a} :
                          numeral_before(reversed(digits(a)), reversed(digits(b)))
         IN  <<join(attachments, ToString(first))>>
             \o sorted_glob(attachments, present \ {first})

\* The loop of lines 435-436.
RECURSIVE attach_files(_)
attach_files(files) ==
    IF files = <<>> THEN <<>>
    ELSE <<"--attach-file", Head(files)>> \o attach_files(Tail(files))

\* attached: the number of files in the attachments directory, named 1 to
\* attached.
mux_matroska_mkv(out_path, chapters, attachments, attached, vid_file, vid_aspect, vid_pixaspect, vid_displaysize, aud_file, sub_file) ==
    <<"mkvmerge">>
    \o (IF chapters # NoPath THEN <<"--chapters", chapters>> ELSE <<>>)
    \o (IF attachments # NoPath
        THEN attach_files(sorted_glob(attachments, 1..attached))
        ELSE <<>>)
    \o <<"--output", out_path>>
    \o (IF vid_aspect # <<>>
        THEN <<"--aspect-ratio", "0:" \o JoinInts("/", vid_aspect)>> ELSE <<>>)
    \o (IF vid_pixaspect # <<>>
        THEN <<"--aspect-ratio-factor", "0:" \o JoinInts("/", vid_pixaspect)>> ELSE <<>>)
    \o (IF vid_displaysize # <<>>
        THEN <<"--display-dimensions", "0:" \o JoinInts("x", vid_displaysize)>> ELSE <<>>)
    \o <<vid_file, aud_file>>
    \o (IF sub_file # NoPath THEN <<sub_file>> ELSE <<>>)

mux_mp4(out_path, chapters, vid_file, vid_pixaspect, aud_file) ==
    <<"MP4Box">>
    \o (IF chapters # NoPath THEN <<"-chap", chapters>> ELSE <<>>)
    \o <<"-add",
         vid_file \o (IF vid_pixaspect # <<>> THEN ":par=" \o JoinInts(":", vid_pixaspect)
                      ELSE ""),
         "-add", aud_file, "-new", out_path>>

(***************************************************************************)
(* main(): helpers                                                         *)
(***************************************************************************)
WorkDir == "work"

\* str.lower() on the output suffixes the model uses (line 587).
lower(suffix) ==
    CASE suffix = ".MKV" -> ".mkv"
      [] suffix = ".Mkv" -> ".mkv"
      [] OTHER -> suffix

\* output_suffix[1:] after lower() (line 590).
strip_dot(suffix) ==
    CASE suffix = ".mkv" -> "mkv"
      [] suffix = ".webm" -> "webm"
      [] suffix = ".mp4" -> "mp4"
      [] OTHER -> suffix

\* Truth value of an optional integer (line 703).
truthy(x) == ~IsNone(x) /\ x.v # 0

NoProc == [st |-> "none", rc |-> 0, waited |-> FALSE]

\* The encoder chosen at lines 669-696: the path of the artifact and the
\* builder's result.
audio_encoder(c, installed) ==
    CASE c.audio_codec = "aac" ->
            [path |-> join(WorkDir, "audio.mp4"),
             r |-> get_encode_aac_command(join(WorkDir, "audio.mp4"),
                                          c.audio_quality, c.audio_bitrate, installed)]
      [] c.audio_codec = "flac" ->
            [path |-> join(WorkDir, "audio.flac"),
             r |-> get_encode_flac_command(join(WorkDir, "audio.flac"))]
      [] c.audio_codec = "opus" ->
            [path |-> join(WorkDir, "audio.opus"),
             r |-> get_encode_opus_command(join(WorkDir, "audio.opus"),
                                           c.audio_quality, c.audio_bitrate)]
      [] c.audio_codec = "vorbis" ->
            [path |-> join(WorkDir, "audio.ogg"),
             r |-> get_encode_vorbis_command(join(WorkDir, "audio.ogg"),
                                             c.audio_quality, c.audio_bitrate)]
      [] c.audio_codec = "mp3" ->
            [path |-> join(WorkDir, "audio.mp3"),
             r |-> get_encode_mp3_command(join(WorkDir, "audio.mp3"),
                                          c.audio_quality, c.audio_bitrate)]
      [] OTHER -> [path |-> NoPath, r |-> Raised("AssertionError")]

\* The encoder call of lines 746-815 for one pass: the path of the artifact
\* and the builder's result.
video_encoder(c, v, cur_pass) ==
    LET stat(name) == IF IsNone(cur_pass) THEN NoPath ELSE join(WorkDir, name)
    IN  CASE c.video_codec = "av1" ->
                [path |-> join(WorkDir, "video.ivf"),
                 r |-> get_encode_av1_command(join(WorkDir, "video.ivf"), v.final_dimensions,
                           v.final_rate, c.video_quality, c.video_bitrate, c.encoder_speed,
                           cur_pass, stat("av1_stats"))]
          [] c.video_codec = "h264" ->
                [path |-> join(WorkDir, "video.264"),
                 r |-> get_encode_h264_command(join(WorkDir, "video.264"), v.final_dimensions,
                           v.final_rate, v.sar, c.video_quality, c.video_bitrate,
                           c.encoder_speed, cur_pass, stat("x264_stats"))]
          [] c.video_codec = "vp9" ->
                [path |-> join(WorkDir, "video.ivf"),
                 r |-> get_encode_vp9_command(join(WorkDir, "video.ivf"), v.final_dimensions,
                           v.final_rate, c.video_quality, c.video_bitrate, c.encoder_speed,
                           cur_pass, stat("vp9_stats"))]
          [] c.video_codec = "vp8" ->
                [path |-> join(WorkDir, "video.ivf"),
                 r |-> get_encode_vp8_command(join(WorkDir, "video.ivf"), v.final_dimensions,
                           v.final_rate, c.video_quality, c.video_bitrate, c.encoder_speed,
                           cur_pass, stat("vp8_stats"))]
          [] OTHER -> [path |-> NoPath, r |-> Raised("AssertionError")]

\* Lines 715-739.
final_dimensions(c, x) ==
    IF c.scale # <<>> THEN c.scale
    ELSE IF c.crop # <<>> THEN SubSeq(c.crop, 1, 2)
    ELSE IF c.size # <<>> THEN c.size
    ELSE x.video_dimensions

\* Lines 724-729: the sample aspect, or the exception of a zero
\* denominator or of the division by a zero fraction.
sample_aspect(c, dims) ==
    IF c.display_aspect # <<>>
    THEN LET aspect == Fraction(c.display_aspect[1], c.display_aspect[2])
             picture == Fraction(dims[1], dims[2])
         IN  IF Failed(aspect) THEN aspect
             ELSE IF Failed(picture) THEN picture
             ELSE Fraction(aspect.numerator * picture.denominator,
                           aspect.denominator * picture.numerator)
    ELSE IF c.pixel_aspect # <<>> THEN Fraction(c.pixel_aspect[1], c.pixel_aspect[2])
    ELSE Fraction(1, 1)

\* Lines 731-739: the final rate, or the exception of a zero denominator.
final_rate(c, x) ==
    LET r == IF c.ivtc THEN Fraction(24000, 1001)
             ELSE IF c.rate # <<>> THEN Fraction(c.rate[1], c.rate[2])
             ELSE x.video_framerate
    IN  IF Failed(r) THEN r
        ELSE IF c.deinterlace THEN times_two(r) ELSE r

\* Whether lines 715-736 read a field the constructor did not set: the
\* dimensions at line 722 or, where the sample aspect of lines 724-729 did
\* not raise before, the frame rate at line 736.
reads_unprobed(c, x) ==
    /\ ~x.has_video
    /\ \/ (c.scale = <<>> /\ c.crop = <<>> /\ c.size = <<>>)
       \/ (~Failed(sample_aspect(c, final_dimensions(c, x))) /\ ~c.ivtc /\ c.rate = <<>>)

\* A variant of main()'s end that removes the work directory only on the
\* way to "return 0", as an explicit removal after the mux step would.
Leave_removes_on_success(how) ==
    /\ status' = how
    /\ pc' = "done"
    /\ work_dir' = IF work_dir = "present" /\ how = "return 0" THEN "removed" ELSE work_dir

\* main() ends: by return or by an exception leaving it.  Leaving the with
\* block of line 617 removes the work directory.
Leave(how) ==
    /\ status' = how
    /\ pc' = "done"
    /\ work_dir' = IF work_dir = "present" THEN "removed" ELSE work_dir

(***************************************************************************)
(* main(): one action per step of lines 564-831                            *)
(***************************************************************************)
inputVars == <<cl, src>>
pathVars == <<chapters_path, attachments_path, subtitles_path, audio_path, video_path>>
procVars == <<tc, dec_proc, enc_proc, tc_log>>

\* A variant of lines 564-571 without the test of the frame rate.
VerifyCommandLine_size_only ==
    /\ pc = "verify"
    /\ IF cl.bluray /\ cl.size = <<>>
       THEN Leave("return 1")
       ELSE pc' = "container" /\ UNCHANGED <<status, work_dir>>
    /\ UNCHANGED <<inputVars, out_container, output, extractor, pathVars, enc_cmd, dec_cmd,
                   video, procVars, launched, warnings, chapter_file, callVars>>

\* Lines 564-571.
VerifyCommandLine ==
    /\ pc = "verify"
    /\ IF cl.bluray /\ (cl.size = <<>> \/ cl.rate = <<>>)
       THEN Leave("return 1")
       ELSE pc' = "container" /\ UNCHANGED <<status, work_dir>>
    /\ UNCHANGED <<inputVars, out_container, output, extractor, pathVars, enc_cmd, dec_cmd,
                   video, procVars, launched, warnings, chapter_file, callVars>>

\* Lines 574-590.
DetermineContainer ==
    /\ pc = "container"
    /\ IF cl.container = ".mkv"
       THEN /\ output' = cl.output_prefix \o ".mkv"
            /\ out_container' = "mkv"
            /\ pc' = "probe" /\ UNCHANGED <<status, work_dir>>
       ELSE IF cl.container = ".webm"
       THEN /\ output' = cl.output_prefix \o ".webm"
            /\ out_container' = "webm"
            /\ pc' = "probe" /\ UNCHANGED <<status, work_dir>>
       ELSE IF cl.container = ".mp4"
       THEN /\ output' = cl.output_prefix \o ".mp4"
            /\ out_container' = "mp4"
            /\ pc' = "probe" /\ UNCHANGED <<status, work_dir>>
       ELSE /\ output' = cl.output_prefix \o cl.output_suffix
            /\ IF lower(cl.output_suffix) \notin {".mkv", ".webm", ".mp4"}
               THEN Leave("return 1") /\ UNCHANGED out_container
               ELSE /\ out_container' = strip_dot(lower(cl.output_suffix))
                    /\ pc' = "probe" /\ UNCHANGED <<status, work_dir>>
    /\ UNCHANGED <<inputVars, extractor, pathVars, enc_cmd, dec_cmd, video, procVars,
                   launched, warnings, chapter_file, callVars>>

\* Lines 601-614: the constructor runs the mplayer probe and, for a Matroska
\* file that is no DVD, mkvmerge --identify.  Either may exit non-zero.
Probe ==
    /\ pc = "probe"
    /\ \E rc_mplayer \in {0, 1}, rc_mkvmerge \in {0, 1} :
          LET disc_type == IF cl.dvd THEN "dvd" ELSE IF cl.bluray THEN "bluray" ELSE "None"
              msid == IF cl.hardsub THEN PyInt(0) ELSE None
              path == cl.input_prefix \o cl.input_suffix
              identify == disc_type # "dvd" /\ IsMkvSuffix(cl.input_suffix)
              mplayer == [proc |-> "probe",
                          cmd |-> <<"mplayer", "-nocorrect-pts", "-vc", ",", "-vo", "null",
                                    "-ac", "ffmp3,", "-ao", "null", "-endpos", "1">>
                                  \o mplayer_source_args(path, disc_type, 1, None, msid)]
              mkvmerge == [proc |-> "identify", cmd |-> <<"mkvmerge", "--identify", path>>]
              made == AVExtractor(path, cl.input_suffix, disc_type, 1,
                                  cl.start_chapter, cl.end_chapter, None, msid, src)
          IN  /\ launched' = launched \o <<mplayer>>
                                \o (IF rc_mplayer = 0 /\ made.made /\ identify
                                    THEN <<mkvmerge>> ELSE <<>>)
              /\ IF rc_mplayer # 0
                 THEN Leave("CalledProcessError") /\ UNCHANGED extractor
                 ELSE IF ~made.made
                 THEN Leave(made.exc) /\ UNCHANGED extractor
                 ELSE IF identify /\ rc_mkvmerge # 0
                 THEN Leave("CalledProcessError") /\ UNCHANGED extractor
                 ELSE /\ extractor' = made
                      /\ pc' = "workdir" /\ UNCHANGED <<status, work_dir>>
    /\ UNCHANGED <<inputVars, out_container, output, pathVars, enc_cmd, dec_cmd, video,
                   procVars, warnings, chapter_file, callVars>>

\* Line 617.
CreateWorkDir ==
    /\ pc = "workdir"
    /\ work_dir' = "present"
    /\ pc' = "chapters"
    /\ UNCHANGED <<inputVars, out_container, output, extractor, pathVars, enc_cmd, dec_cmd,
                   video, procVars, launched, warnings, chapter_file, status, callVars>>

\* Lines 621-632, with extract_chapters (lines 133-170).
Chapters ==
    /\ pc = "chapters"
    /\ IF extractor.has_chapters /\ ~cl.no_chapters
       THEN IF out_container = "webm"
            THEN /\ warnings' = Append(warnings, "chapters")
                 /\ pc' = "attachments"
                 /\ UNCHANGED <<status, work_dir, chapters_path, chapter_file, launched>>
            ELSE IF out_container \in {"mkv", "mp4"}
            THEN IF ~extractor.is_matroska /\ extractor.disc_type # "dvd"
                 THEN /\ Leave("Exception: Cannot extract chapters because there are none.")
                      /\ chapters_path' = join(WorkDir, "chapters")
                      /\ UNCHANGED <<chapter_file, launched, warnings>>
                 ELSE \E rc \in {0, 1} :
                        LET tool == IF extractor.is_matroska
                                    THEN <<"mkvextract", "chapters", extractor.path, "--simple">>
                                    ELSE <<"dvdxchap", "--title", ToString(extractor.disc_title),
                                           extractor.path>>
                            r == extract_chapters(src.chapters, extractor.chap_start,
                                                  extractor.chap_end)
                        IN  /\ launched' = Append(launched, [proc |-> "extract_chapters", cmd |-> tool])
                            /\ UNCHANGED warnings
                            /\ chapters_path' = join(WorkDir, "chapters")
                            /\ IF rc # 0
                               THEN Leave("CalledProcessError") /\ UNCHANGED chapter_file
                               ELSE IF r.exc # "none"
                               THEN Leave(r.exc) /\ UNCHANGED chapter_file
                               ELSE /\ chapter_file' = [written |-> TRUE, text |-> r.text]
                                    /\ pc' = "attachments"
                                    /\ UNCHANGED <<status, work_dir>>
            ELSE /\ Leave("AssertionError")
                 /\ UNCHANGED <<chapters_path, chapter_file, launched, warnings>>
       ELSE /\ pc' = "attachments"
            /\ UNCHANGED <<status, work_dir, chapters_path, chapter_file, launched, warnings>>
    /\ UNCHANGED <<inputVars, out_container, output, extractor, attachments_path,
                   subtitles_path, audio_path, video_path, enc_cmd, dec_cmd, video, procVars,
                   callVars>>

\* A variant of lines 635-648 in which the MP4 container takes the branch of
\* the Matroska container.
Attachments_mp4_extracts ==
    /\ pc = "attachments"
    /\ IF extractor.attachment_cnt > 0 /\ ~cl.no_attachments
       THEN IF out_container = "webm"
            THEN /\ warnings' = Append(warnings, "attachments")
                 /\ pc' = "subtitles"
                 /\ UNCHANGED <<status, work_dir, attachments_path, launched>>
            ELSE \E rc \in {0, 1} :
                   /\ launched' = Append(launched,
                          [proc |-> "extract_attachments",
                           cmd |-> <<"mkvextract", "attachments", extractor.path>>
                                   \o [k \in 1..extractor.attachment_cnt |-> ToString(k)]])
                   /\ UNCHANGED warnings
                   /\ attachments_path' = join(WorkDir, "attachments")
                   /\ IF rc # 0
                      THEN Leave("CalledProcessError")
                      ELSE /\ pc' = "subtitles"
                           /\ UNCHANGED <<status, work_dir>>
       ELSE /\ pc' = "subtitles"
            /\ UNCHANGED <<status, work_dir, attachments_path, launched, warnings>>
    /\ UNCHANGED <<inputVars, out_container, output, extractor, chapters_path, subtitles_path,
                   audio_path, video_path, enc_cmd, dec_cmd, video, procVars, chapter_file,
                   callVars>>

\* Lines 635-648, with extract_attachments (lines 173-179).
Attachments ==
    /\ pc = "attachments"
    /\ IF extractor.attachment_cnt > 0 /\ ~cl.no_attachments
       THEN IF out_container \in {"webm", "mp4"}
            THEN /\ warnings' = Append(warnings, "attachments")
                 /\ pc' = "subtitles"
                 /\ UNCHANGED <<status, work_dir, attachments_path, launched>>
            ELSE IF out_container = "mkv"
            THEN \E rc \in {0, 1} :
                   /\ launched' = Append(launched,
                          [proc |-> "extract_attachments",
                           cmd |-> <<"mkvextract", "attachments", extractor.path>>
                                   \o [k \in 1..extractor.attachment_cnt |-> ToString(k)]])
                   /\ UNCHANGED warnings
                   /\ attachments_path' = join(WorkDir, "attachments")
                   /\ IF rc # 0
                      THEN Leave("CalledProcessError")
                      ELSE /\ pc' = "subtitles"
                           /\ UNCHANGED <<status, work_dir>>
            ELSE /\ Leave("AssertionError")
                 /\ UNCHANGED <<attachments_path, launched, warnings>>
       ELSE /\ pc' = "subtitles"
            /\ UNCHANGED <<status, work_dir, attachments_path, launched, warnings>>
    /\ UNCHANGED <<inputVars, out_container, output, extractor, chapters_path, subtitles_path,
                   audio_path, video_path, enc_cmd, dec_cmd, video, procVars, chapter_file,
                   callVars>>

\* Lines 651-666, with extract_subtitles (lines 182-188).
Subtitles ==
    /\ pc = "subtitles"
    /\ IF extractor.has_subtitles /\ ~cl.no_subtitles /\ ~cl.hardsub
       THEN IF out_container \in {"webm", "mp4"}
            THEN /\ warnings' = Append(warnings, "subtitles")
                 /\ pc' = "audio"
                 /\ UNCHANGED <<status, work_dir, subtitles_path, launched>>
            ELSE IF out_container = "mkv"
            THEN IF extractor.is_matroska /\ IsUnset(extractor.mkv_subtitle_tracknum)
            THEN /\ Leave("AttributeError")
                 /\ subtitles_path' = join(WorkDir, "subtitles")
                 /\ UNCHANGED <<launched, warnings>>
            ELSE \E rc \in {0, 1} :
                   LET tool == IF extractor.is_matroska
                               THEN <<"mkvextract", "tracks", extractor.path,
                                      str(extractor.mkv_subtitle_tracknum) \o ":"
                                      \o join(WorkDir, "subtitles")>>
                               ELSE <<"mencoder", "-ovc", "copy", "-o", devnull, "-vobsubout",
                                      join(WorkDir, "subtitles")>>
                                    \o extractor.mplayer_input_args \o <<"-nosound">>
                   IN  /\ launched' = Append(launched, [proc |-> "extract_subtitles", cmd |-> tool])
                       /\ UNCHANGED warnings
                       /\ IF rc # 0
                          THEN /\ Leave("CalledProcessError")
                               /\ subtitles_path' = join(WorkDir, "subtitles")
                          ELSE /\ subtitles_path' = join(WorkDir, "subtitles")
                                                    \o (IF cl.dvd THEN ".idx" ELSE "")
                               /\ pc' = "audio"
                               /\ UNCHANGED <<status, work_dir>>
            ELSE /\ Leave("AssertionError")
                 /\ UNCHANGED <<subtitles_path, launched, warnings>>
       ELSE /\ pc' = "audio"
            /\ UNCHANGED <<status, work_dir, subtitles_path, launched, warnings>>
    /\ UNCHANGED <<inputVars, out_container, output, extractor, chapters_path,
                   attachments_path, audio_path, video_path, enc_cmd, dec_cmd, video, procVars,
                   chapter_file, callVars>>

\* Lines 669-709: the encoder is chosen and built, then either transcode() is
\* entered or the audio stream is extracted (lines 191-196).
Audio ==
    /\ pc = "audio"
    /\ LET a == audio_encoder(cl, src.installed)
       IN  IF a.r.exc # "none"
           THEN /\ Leave(a.r.exc)
                /\ audio_path' = a.path
                /\ UNCHANGED <<enc_cmd, dec_cmd, tc, launched>>
           ELSE IF cl.audio_codec # "copy"
           THEN /\ audio_path' = a.path
                /\ enc_cmd' = a.r.cmd
                /\ UNCHANGED launched
                /\ IF decode_audio(extractor).exc # "none"
                   THEN Leave(decode_audio(extractor).exc) /\ UNCHANGED <<dec_cmd, tc>>
                   ELSE /\ dec_cmd' = decode_audio(extractor).cmd
                        /\ tc' = "popen_dec"
                        /\ pc' = "audio_transcode"
                        /\ UNCHANGED <<status, work_dir>>
           ELSE IF truthy(extractor.chap_start) \/ truthy(extractor.chap_end)
           THEN /\ Leave("return 1")
                /\ UNCHANGED <<audio_path, enc_cmd, dec_cmd, tc, launched>>
           ELSE IF extractor.is_matroska /\ IsUnset(extractor.mkv_audio_tracknum)
           THEN /\ Leave("AttributeError")
                /\ audio_path' = join(WorkDir, "audio")
                /\ UNCHANGED <<enc_cmd, dec_cmd, tc, launched>>
           ELSE \E rc \in {0, 1} :
                  /\ launched' = Append(launched,
                         [proc |-> "extract_audio",
                          cmd |-> IF extractor.is_matroska
                                  THEN <<"mkvextract", "tracks", extractor.path,
                                         str(extractor.mkv_audio_tracknum) \o ":"
                                         \o join(WorkDir, "audio")>>
                                  ELSE <<"mplayer", "-dumpaudio", "-dumpfile",
                                         join(WorkDir, "audio")>>
                                       \o extractor.mplayer_input_args])
                  /\ UNCHANGED <<enc_cmd, dec_cmd, tc>>
                  /\ audio_path' = join(WorkDir, "audio")
                  /\ IF rc # 0
                     THEN Leave("CalledProcessError")
                     ELSE /\ pc' = "video_prepare"
                          /\ UNCHANGED <<status, work_dir>>
    /\ UNCHANGED <<inputVars, out_container, output, extractor, chapters_path,
                   attachments_path, subtitles_path, video_path, video, dec_proc, enc_proc,
                   tc_log, warnings, chapter_file, callVars>>

\* Lines 715-745.
PrepareVideo ==
    /\ pc = "video_prepare"
    /\ IF reads_unprobed(cl, extractor)
       THEN Leave("AttributeError") /\ UNCHANGED <<video, dec_cmd>>
       ELSE IF Failed(sample_aspect(cl, final_dimensions(cl, extractor)))
       THEN /\ Leave(sample_aspect(cl, final_dimensions(cl, extractor)).exc)
            /\ UNCHANGED <<video, dec_cmd>>
       ELSE IF Failed(final_rate(cl, extractor))
       THEN Leave(final_rate(cl, extractor).exc) /\ UNCHANGED <<video, dec_cmd>>
       ELSE /\ video' = [final_dimensions |-> final_dimensions(cl, extractor),
                         sar |-> sample_aspect(cl, final_dimensions(cl, extractor)),
                         final_rate |-> final_rate(cl, extractor),
                         cur_pass |-> None]
            /\ dec_cmd' = get_decode_video_command(extractor, cl.denoise, cl.post_process,
                              cl.scale, cl.crop, cl.deinterlace, cl.ivtc, cl.rate, cl.hardsub)
            /\ pc' = "video_encode"
            /\ UNCHANGED <<status, work_dir>>
    /\ UNCHANGED <<inputVars, out_container, output, extractor, pathVars, enc_cmd, procVars,
                   launched, warnings, chapter_file, callVars>>

\* Lines 746-815: the next encoder command is built and transcode() entered.
\* Without --two-pass there is one call with no pass; with it, the call for
\* pass 1 and, once that transcode has returned, the call for pass 2.
EncodeVideo ==
    /\ pc = "video_encode"
    /\ LET cur_pass == IF ~cl.two_pass THEN None
                       ELSE IF IsNone(video.cur_pass) THEN PyInt(1) ELSE PyInt(2)
           e == video_encoder(cl, video, cur_pass)
       IN  /\ video_path' = e.path
           /\ IF e.r.exc # "none"
              THEN Leave(e.r.exc) /\ UNCHANGED <<enc_cmd, video, tc>>
              ELSE /\ enc_cmd' = e.r.cmd
                   /\ video' = [video EXCEPT !.cur_pass = cur_pass]
                   /\ tc' = "popen_dec"
                   /\ pc' = "video_transcode"
                   /\ UNCHANGED <<status, work_dir>>
    /\ UNCHANGED <<inputVars, out_container, output, extractor, chapters_path,
                   attachments_path, subtitles_path, audio_path, dec_cmd, dec_proc, enc_proc,
                   tc_log, launched, warnings, chapter_file, callVars>>

\* Lines 818-831: the multiplexer runs; then the with block is left and
\* main() returns 0.
Mux ==
    /\ pc = "mux"
    /\ \E rc \in {0, 1} :
          LET cmd == IF out_container \in {"mkv", "webm"}
                     THEN mux_matroska_mkv(output, chapters_path, attachments_path,
                                           extractor.attachment_cnt, video_path,
                                           cl.display_aspect, cl.pixel_aspect,
                                           cl.display_size, audio_path, subtitles_path)
                     ELSE mux_mp4(output, chapters_path, video_path, cl.pixel_aspect,
                                  audio_path)
          IN  /\ launched' = Append(launched, [proc |-> "mux", cmd |-> cmd])
              /\ Leave(IF rc # 0 THEN "CalledProcessError" ELSE "return 0")
    /\ UNCHANGED <<inputVars, out_container, output, extractor, pathVars, enc_cmd, dec_cmd,
                   video, procVars, warnings, chapter_file, callVars>>

(***************************************************************************)
(* transcode(), lines 481-488, and the two processes it starts             *)
(***************************************************************************)
\* Line 482.
PopenDec ==
    /\ tc = "popen_dec"
    /\ dec_proc' = [st |-> "running", rc |-> 0, waited |-> FALSE]
    /\ enc_proc' = NoProc
    /\ launched' = Append(launched, [proc |-> "decode", cmd |-> dec_cmd])
    /\ tc' = "popen_enc"
    /\ UNCHANGED <<inputVars, pc, out_container, output, extractor, work_dir, pathVars,
                   enc_cmd, dec_cmd, video, tc_log, warnings, chapter_file, status, callVars>>

\* Lines 483-484.
PopenEnc ==
    /\ tc = "popen_enc"
    /\ enc_proc' = [st |-> "running", rc |-> 0, waited |-> FALSE]
    /\ launched' = Append(launched, [proc |-> "encode", cmd |-> enc_cmd])
    /\ tc' = "wait_dec"
    /\ UNCHANGED <<inputVars, pc, out_container, output, extractor, work_dir, pathVars,
                   enc_cmd, dec_cmd, video, dec_proc, tc_log, warnings, chapter_file, status,
                   callVars>>

\* The decode process exits, with any status, whenever it does.
DecExits ==
    /\ dec_proc.st = "running"
    /\ \E rc \in {0, 1} : dec_proc' = [dec_proc EXCEPT !.st = "exited", !.rc = rc]
    /\ UNCHANGED <<inputVars, pc, out_container, output, extractor, work_dir, pathVars,
                   enc_cmd, dec_cmd, video, tc, enc_proc, tc_log, launched, warnings,
                   chapter_file, status, callVars>>

\* The encode process exits, with any status, whenever it does.
EncExits ==
    /\ enc_proc.st = "running"
    /\ \E rc \in {0, 1} : enc_proc' = [enc_proc EXCEPT !.st = "exited", !.rc = rc]
    /\ UNCHANGED <<inputVars, pc, out_container, output, extractor, work_dir, pathVars,
                   enc_cmd, dec_cmd, video, tc, dec_proc, tc_log, launched, warnings,
                   chapter_file, status, callVars>>

\* Lines 485-486: dec_proc.wait() returns once the process has exited.
WaitDec ==
    /\ tc = "wait_dec"
    /\ dec_proc.st = "exited"
    /\ dec_proc' = [dec_proc EXCEPT !.waited = TRUE]
    /\ IF dec_proc.rc # 0
       THEN /\ tc' = "idle"
            /\ tc_log' = Append(tc_log, [step |-> pc, error |-> "decoding",
                                         dec |-> dec_proc', enc |-> enc_proc])
            /\ Leave("Exception: Error occurred in decoding process!")
       ELSE /\ tc' = "wait_enc"
            /\ UNCHANGED <<tc_log, pc, status, work_dir>>
    /\ UNCHANGED <<inputVars, out_container, output, extractor, pathVars, enc_cmd, dec_cmd,
                   video, enc_proc, launched, warnings, chapter_file, callVars>>

\* A variant of lines 487-488 that polls the encode process instead of
\* waiting for it: a process still running counts as status 0.
WaitEnc_polls ==
    /\ tc = "wait_enc"
    /\ enc_proc' = [enc_proc EXCEPT !.waited = TRUE]
    /\ tc' = "idle"
    /\ IF enc_proc.rc # 0
       THEN /\ tc_log' = Append(tc_log, [step |-> pc, error |-> "encoding",
                                         dec |-> dec_proc, enc |-> enc_proc'])
            /\ Leave("Exception: Error occurred in encoding process!")
       ELSE /\ tc_log' = Append(tc_log, [step |-> pc, error |-> "none",
                                         dec |-> dec_proc, enc |-> enc_proc'])
            /\ pc' = IF pc = "audio_transcode" THEN "video_prepare"
                     ELSE IF cl.two_pass /\ video.cur_pass = PyInt(1) THEN "video_encode"
                     ELSE "mux"
            /\ UNCHANGED <<status, work_dir>>
    /\ UNCHANGED <<inputVars, out_container, output, extractor, pathVars, enc_cmd, dec_cmd,
                   video, dec_proc, launched, warnings, chapter_file, callVars>>

\* Lines 487-488, and the return to main(): lines 700, 751-761 and their
\* like for the other codecs.
WaitEnc ==
    /\ tc = "wait_enc"
    /\ enc_proc.st = "exited"
    /\ enc_proc' = [enc_proc EXCEPT !.waited = TRUE]
    /\ tc' = "idle"
    /\ IF enc_proc.rc # 0
       THEN /\ tc_log' = Append(tc_log, [step |-> pc, error |-> "encoding",
                                         dec |-> dec_proc, enc |-> enc_proc'])
            /\ Leave("Exception: Error occurred in encoding process!")
       ELSE /\ tc_log' = Append(tc_log, [step |-> pc, error |-> "none",
                                         dec |-> dec_proc, enc |-> enc_proc'])
            /\ pc' = IF pc = "audio_transcode" THEN "video_prepare"
                     ELSE IF cl.two_pass /\ video.cur_pass = PyInt(1) THEN "video_encode"
                     ELSE "mux"
            /\ UNCHANGED <<status, work_dir>>
    /\ UNCHANGED <<inputVars, out_container, output, extractor, pathVars, enc_cmd, dec_cmd,
                   video, dec_proc, launched, warnings, chapter_file, callVars>>

(***************************************************************************)
(* The runs modelled: command lines and sources                            *)
(***************************************************************************)
MaxChapters == 6

\* A timestamp of the chapter format for t milliseconds, t below 100 hours.
Timestamp(idx, t) ==
    TimeLine(idx, zfill2(t \div 3600000), zfill2((t \div 60000) % 60),
             zfill2((t \div 1000) % 60), zfill3(t % 1000))

\* A well-formed chapter text of n chapters: chapter i starts at
\* base + (i-1)*step milliseconds and is named 'Chapter 0i' (style "label",
\* as dvdxchap and mkvmerge generate it), 'Chapter i' (style "bare") or by a
\* free-form title (style "title").
RECURSIVE ChapterText(_, _, _, _)
ChapterText(n, base, step, style) ==
    IF n = 0 THEN <<>>
    ELSE ChapterText(n - 1, base, step, style)
         \o <<Timestamp(zfill2(n), base + (n - 1) * step),
              CASE style = "label" -> LabelLine(zfill2(n), zfill2(n))
                [] style = "bare"  -> LabelLine(zfill2(n), ToString(n))
                [] OTHER           -> TitleLine(zfill2(n), "Part " \o ToString(n))>>

Bases == {0, 1500}
Steps == {0, 61001, 3723004, 43200000}
Styles == {"label", "bare", "title"}
ChapterTexts ==
    {ChapterText(n, base, step, style) :
        n \in 1..MaxChapters, base \in Bases, step \in Steps, style \in Styles}
ChapterBounds == {None} \cup {PyInt(i) : i \in 0..(MaxChapters + 1)}

\* The argparse defaults (lines 498-556), for an input in.mkv and -o out.mkv.
DefaultCommandLine ==
    [input_prefix |-> "in", input_suffix |-> ".mkv",
     container |-> "None", output_prefix |-> "out", output_suffix |-> ".mkv",
     dvd |-> FALSE, bluray |-> FALSE, size |-> <<>>, rate |-> <<>>,
     audio_codec |-> "opus", audio_quality |-> None, audio_bitrate |-> None,
     video_codec |-> "av1", video_quality |-> None, video_bitrate |-> None,
     encoder_speed |-> PyInt(3), two_pass |-> FALSE,
     start_chapter |-> None, end_chapter |-> None, no_chapters |-> FALSE,
     denoise |-> FALSE, post_process |-> FALSE, deinterlace |-> FALSE, ivtc |-> FALSE,
     crop |-> <<>>, scale |-> <<>>, display_aspect |-> <<>>, pixel_aspect |-> <<>>,
     display_size |-> <<>>,
     hardsub |-> FALSE, no_subtitles |-> FALSE, no_attachments |-> FALSE]

\* A source with six chapters, one attachment and a subtitle track, on a
\* host with fdkaac.
DefaultSource ==
    [chapters |-> ChapterText(6, 0, 61001, "label"), attachment_cnt |-> 1,
     subtitles |-> TRUE, dimensions |-> <<720, 480>>, fps |-> 23976,
     audio_channels |-> 2, audio_codec |-> "ffac3", installed |-> {"fdkaac"},
     audio_track |-> 1, subtitle_track |-> 2, cwd |-> "/home/user"]

AudioCodecs == {"aac", "flac", "mp3", "opus", "vorbis", "copy"}
VideoCodecs == {"av1", "h264", "hevc", "vp9", "vp8", "copy"}
\* -q and -b, -Q and -B are mutually exclusive groups (lines 515-523).
AudioModes == {<<None, None>>, <<PyFloat(5), None>>, <<None, PyInt(128)>>}
VideoModes == {<<None, None>>, <<PyFloat(5), None>>, <<None, PyFloat(1000)>>}

Run(c, s) == [cl |-> c, src |-> s]

\* Every codec pair, with and without two passes and a chapter range.
PipelineRuns ==
    {Run([DefaultCommandLine EXCEPT !.audio_codec = a, !.video_codec = v, !.two_pass = tp,
                                    !.start_chapter = cs, !.end_chapter = ce],
         DefaultSource) :
        a \in AudioCodecs, v \in VideoCodecs, tp \in BOOLEAN,
        cs \in {None, PyInt(2)}, ce \in {None, PyInt(4)}}

\* Every quality and bitrate choice, for every codec that encodes.
RateRuns ==
    {Run([DefaultCommandLine EXCEPT !.audio_codec = a, !.audio_quality = am[1],
                                    !.audio_bitrate = am[2], !.video_codec = v,
                                    !.video_quality = vm[1], !.video_bitrate = vm[2],
                                    !.encoder_speed = PyInt(sp)],
         [DefaultSource EXCEPT !.installed = inst]) :
        a \in {"aac", "mp3", "opus", "vorbis"}, am \in AudioModes,
        v \in {"av1", "h264", "vp9", "vp8"}, vm \in VideoModes, sp \in {1, 3},
        inst \in {{"fdkaac"}, {"neroAacEnc", "faac"}, {"faac"}, {}}}

\* Every container choice, by option and by suffix, for every source.
ContainerRuns ==
    {Run([DefaultCommandLine EXCEPT !.container = u, !.output_suffix = sfx,
                                    !.input_suffix = isfx],
         [DefaultSource EXCEPT !.chapters = ch, !.attachment_cnt = att, !.subtitles = sub]) :
        u \in {"None", "mkv", "webm", "mp4"},
        sfx \in {".mkv", ".MKV", ".webm", ".mp4", ".avi"},
        isfx \in {".mkv", ".avi"},
        ch \in {<<>>, ChapterText(2, 0, 61001, "title")}, att \in {0, 11}, sub \in BOOLEAN}

\* Every choice of the options that drop metadata.
MetadataRuns ==
    {Run([DefaultCommandLine EXCEPT !.output_suffix = sfx, !.no_chapters = nc,
                                    !.no_attachments = na, !.no_subtitles = ns,
                                    !.hardsub = hs],
         DefaultSource) :
        sfx \in {".mkv", ".webm", ".mp4"}, nc \in BOOLEAN, na \in BOOLEAN, ns \in BOOLEAN,
        hs \in BOOLEAN}

\* Discs and files, with and without the forced size and rate and the
\* picture options that decide the final size and rate.
DiscRuns ==
    {Run([DefaultCommandLine EXCEPT !.input_prefix = IF d = "None" THEN "in" ELSE "/dev/sr0",
                                    !.input_suffix = IF d = "None" THEN ".avi" ELSE "",
                                    !.dvd = (d = "dvd"), !.bluray = (d = "bluray"),
                                    !.size = sz, !.rate = rt, !.ivtc = iv,
                                    !.deinterlace = di, !.scale = sc, !.crop = cr],
         [DefaultSource EXCEPT !.fps = fps]) :
        d \in {"None", "dvd", "bluray"}, sz \in {<<>>, <<1920, 1080>>},
        rt \in {<<>>, <<30000, 1001>>}, iv \in BOOLEAN, di \in BOOLEAN,
        sc \in {<<>>, <<640, 360>>}, cr \in {<<>>, <<704, 464, 8, 8>>},
        fps \in {0, 23976, 23980, 25000}}

\* The aspect options, a scale and a forced rate, with zeros among their
\* numbers, for a file and for a Blu-ray disc with its forced size.
AspectRuns ==
    {Run([DefaultCommandLine EXCEPT !.output_suffix = sfx,
                                    !.input_prefix = IF bd THEN "/dev/sr0" ELSE "in",
                                    !.input_suffix = IF bd THEN "" ELSE ".mkv",
                                    !.bluray = bd,
                                    !.size = IF bd THEN <<1920, 1080>> ELSE <<>>,
                                    !.display_aspect = asp[1], !.pixel_aspect = asp[2],
                                    !.display_size = asp[3], !.scale = sc, !.rate = rt],
         DefaultSource) :
        sfx \in {".mkv", ".mp4"}, bd \in BOOLEAN,
        asp \in {<<<<>>, <<>>, <<>>>>, <<<<16, 9>>, <<>>, <<>>>>, <<<<16, 0>>, <<>>, <<>>>>,
                 <<<<>>, <<4, 3>>, <<>>>>, <<<<>>, <<1, 0>>, <<>>>>,
                 <<<<>>, <<>>, <<1024, 576>>>>},
        sc \in {<<>>, <<0, 360>>, <<640, 0>>},
        rt \in {<<>>, <<30, 0>>, <<0, 1>>, <<30000, 1001>>}}

\* A Matroska file read as a file and as a DVD image, with AC-3 and with
\* FLAC audio, from the home directory and from the root directory.
ImageRuns ==
    {Run([DefaultCommandLine EXCEPT !.input_prefix = "disc", !.input_suffix = ".mkv",
                                    !.dvd = dvd, !.no_subtitles = ns, !.audio_codec = a],
         [DefaultSource EXCEPT !.audio_codec = ac, !.cwd = dir]) :
        dvd \in BOOLEAN, ns \in BOOLEAN, a \in {"opus", "copy"},
        ac \in {"ffac3", "ffflac"}, dir \in {"/home/user", "/"}}

Runs ==
    PipelineRuns \cup RateRuns \cup ContainerRuns \cup MetadataRuns \cup DiscRuns
        \cup AspectRuns \cup ImageRuns

\* main() has not started, or is not part of the behaviour at all.
MainAt(where, run) ==
    /\ cl = run.cl
    /\ src = run.src
    /\ pc = where
    /\ out_container = "None"
    /\ output = cl.output_prefix \o cl.output_suffix
    /\ extractor = NoExtractor
    /\ work_dir = "none"
    /\ chapters_path = NoPath
    /\ attachments_path = NoPath
    /\ subtitles_path = NoPath
    /\ audio_path = NoPath
    /\ video_path = NoPath
    /\ enc_cmd = <<>>
    /\ dec_cmd = <<>>
    /\ video = [final_dimensions |-> <<>>, sar |-> Fraction(1, 1),
                final_rate |-> Fraction(0, 1), cur_pass |-> None]
    /\ tc = "idle"
    /\ dec_proc = NoProc
    /\ enc_proc = NoProc
    /\ tc_log = <<>>
    /\ launched = <<>>
    /\ warnings = <<>>
    /\ chapter_file = [written |-> FALSE, text |-> <<>>]
    /\ status = "running"

NotCalled == [done |-> FALSE]

Init ==
    /\ \E run \in Runs : MainAt("verify", run)
    /\ call = NotCalled
    /\ ret = NotCalled

Next ==
    \/ VerifyCommandLine
    \/ DetermineContainer
    \/ Probe
    \/ CreateWorkDir
    \/ Chapters
    \/ Attachments
    \/ Subtitles
    \/ Audio
    \/ PrepareVideo
    \/ EncodeVideo
    \/ Mux
    \/ PopenDec
    \/ PopenEnc
    \/ DecExits
    \/ EncExits
    \/ WaitDec
    \/ WaitEnc

Spec == Init /\ [][Next]_vars

(***************************************************************************)
(* The builders called directly                                            *)
(***************************************************************************)
AudioBuilders == {"get_encode_aac_command", "get_encode_flac_command",
                  "get_encode_mp3_command", "get_encode_opus_command",
                  "get_encode_vorbis_command"}
VideoBuilders == {"get_encode_av1_command", "get_encode_h264_command",
                  "get_encode_vp9_command", "get_encode_vp8_command"}

BuilderCalls ==
    [fn : AudioBuilders \cup VideoBuilders,
     out_path : {"out.bin"},
     dimensions : {<<720, 480>>},
     framerate : {Fraction(24000, 1001)},
     sar : {Fraction(1, 1)},
     quality : {None, PyFloat(0), PyFloat(5), PyFloat(10)},
     bitrate : {None, PyInt(128)},
     speed : {PyInt(0), PyInt(1), PyInt(2), PyInt(3)},
     cur_pass : {None, PyInt(1), PyInt(2), PyInt(3)},
     stat_path : {NoPath, "stats"},
     installed : {{"fdkaac"}, {"neroAacEnc", "faac"}, {"faac"}, {}}]

\* The call c names, with its keyword arguments.
apply_builder(c) ==
    CASE c.fn = "get_encode_aac_command" ->
            get_encode_aac_command(c.out_path, c.quality, c.bitrate, c.installed)
      [] c.fn = "get_encode_flac_command" -> get_encode_flac_command(c.out_path)
      [] c.fn = "get_encode_mp3_command" ->
            get_encode_mp3_command(c.out_path, c.bitrate, c.quality)
      [] c.fn = "get_encode_opus_command" ->
            get_encode_opus_command(c.out_path, c.quality, c.bitrate)
      [] c.fn = "get_encode_vorbis_command" ->
            get_encode_vorbis_command(c.out_path, c.quality, c.bitrate)
      [] c.fn = "get_encode_av1_command" ->
            get_encode_av1_command(c.out_path, c.dimensions, c.framerate, c.quality,
                                   c.bitrate, c.speed, c.cur_pass, c.stat_path)
      [] c.fn = "get_encode_h264_command" ->
            get_encode_h264_command(c.out_path, c.dimensions, c.framerate, c.sar, c.quality,
                                    c.bitrate, c.speed, c.cur_pass, c.stat_path)
      [] c.fn = "get_encode_vp9_command" ->
            get_encode_vp9_command(c.out_path, c.dimensions, c.framerate, c.quality,
                                   c.bitrate, c.speed, c.cur_pass, c.stat_path)
      [] c.fn = "get_encode_vp8_command" ->
            get_encode_vp8_command(c.out_path, c.dimensions, c.framerate, c.quality,
                                   c.bitrate, c.speed, c.cur_pass, c.stat_path)

CallBuilder ==
    /\ ~ret.done
    /\ call.fn \in AudioBuilders \cup VideoBuilders
    /\ ret' = [done |-> TRUE, exc |-> apply_builder(call).exc, cmd |-> apply_builder(call).cmd]
    /\ UNCHANGED <<call, mainVars>>

InitBuilders ==
    /\ MainAt("idle", Run(DefaultCommandLine, DefaultSource))
    /\ call \in BuilderCalls
    /\ ret = NotCalled

SpecBuilders == InitBuilders /\ [][CallBuilder]_vars

(***************************************************************************)
(* extract_chapters called directly                                        *)
(***************************************************************************)
ChapterCalls ==
    [fn : {"extract_chapters"}, chapters : ChapterTexts,
     chap_start : ChapterBounds, chap_end : ChapterBounds]

CallExtractChapters ==
    /\ ~ret.done
    /\ call.fn = "extract_chapters"
    /\ LET r == extract_chapters(call.chapters, call.chap_start, call.chap_end)
       IN  ret' = [done |-> TRUE, exc |-> r.exc, text |-> r.text]
    /\ UNCHANGED <<call, mainVars>>

InitChapters ==
    /\ MainAt("idle", Run(DefaultCommandLine, DefaultSource))
    /\ call \in ChapterCalls
    /\ ret = NotCalled

SpecChapters == InitChapters /\ [][CallExtractChapters]_vars

(***************************************************************************)
(* get_decode_video_command called directly                                *)
(***************************************************************************)
DecodeCalls ==
    [fn : {"get_decode_video_command"},
     denoise : BOOLEAN, pp : BOOLEAN, deint : BOOLEAN, ivtc : BOOLEAN, hardsub : BOOLEAN,
     scale : {<<>>, <<640, 360>>},
     crop : {<<>>, <<704, 464, 8, 8>>},
     force_rate : {<<>>, <<25, 1>>, <<30000, 1001>>}]

\* The extractor the method is called on: the default source, probed.
DecodeExtractor ==
    AVExtractor("in.mkv", ".mkv", "None", 1, None, None, None, None, DefaultSource)

\* The call, with the -vf argument also kept as the list of its fields.
CallDecodeVideo ==
    /\ ~ret.done
    /\ call.fn = "get_decode_video_command"
    /\ ret' = [done |-> TRUE, exc |-> "none",
               cmd |-> get_decode_video_command(DecodeExtractor, call.denoise, call.pp,
                           call.scale, call.crop, call.deint, call.ivtc, call.force_rate,
                           call.hardsub),
               filters |-> video_filters(call.denoise, call.pp, call.scale, call.crop,
                                         call.deint, call.ivtc),
               ofps |-> video_ofps(call.ivtc, call.force_rate)]
    /\ UNCHANGED <<call, mainVars>>

InitDecode ==
    /\ MainAt("idle", Run(DefaultCommandLine, DefaultSource))
    /\ call \in DecodeCalls
    /\ ret = NotCalled

SpecDecode == InitDecode /\ [][CallDecodeVideo]_vars

(***************************************************************************)
(* Properties                                                              *)
(***************************************************************************)
\* Reading a command: where an encoder writes its bitstream and which
\* statistics file it names, in the flag syntax of the four video encoders.
WritesTo(cmd, path) ==
    \E i \in DOMAIN cmd :
        \/ cmd[i] = "--output=" \o path
        \/ (cmd[i] \in {"-b", "--output"} /\ i < Len(cmd) /\ cmd[i + 1] = path)
UsesStats(cmd, path) ==
    \E i \in DOMAIN cmd :
        \/ cmd[i] = "--fpf=" \o path
        \/ (cmd[i] \in {"--stat-file", "--stats"} /\ i < Len(cmd) /\ cmd[i + 1] = path)

\* The processes started by transcode() and by the muxer, in order.
RECURSIVE PipelineEvents(_)
PipelineEvents(events) ==
    IF events = <<>> THEN <<>>
    ELSE (IF Head(events).proc \in {"decode", "encode", "mux"} THEN <<Head(events)>> ELSE <<>>)
         \o PipelineEvents(Tail(events))

\* C1: once transcode() has started both processes and has ended, by return
\* or by raising, it has waited for the decode process and for the encode
\* process.
C1_BothProcessesWaitedFor ==
    \A i \in DOMAIN tc_log : tc_log[i].dec.waited /\ tc_log[i].enc.waited

\* C2: the error transcode() ends with names exactly the processes that
\* exited non-zero: decoding, encoding, or both; no error iff both exited
\* zero.
C2_ErrorNamesFailedProcesses ==
    \A i \in DOMAIN tc_log :
        LET e == tc_log[i]
        IN  (e.dec.st = "exited" /\ e.enc.st = "exited") =>
                e.error = (IF e.dec.rc # 0 /\ e.enc.rc # 0 THEN "both"
                           ELSE IF e.dec.rc # 0 THEN "decoding"
                           ELSE IF e.enc.rc # 0 THEN "encoding"
                           ELSE "none")

\* The run of the end-to-end scenario: six chapters, -C 2 -E 4, an mkv
\* output, opus audio, av1 video in two passes.
ScenarioRun ==
    /\ Len(src.chapters) = 12
    /\ cl.start_chapter = PyInt(2) /\ cl.end_chapter = PyInt(4)
    /\ cl.output_suffix = ".mkv" /\ cl.container = "None"
    /\ cl.audio_codec = "opus" /\ cl.video_codec = "av1" /\ cl.two_pass

\* main() ended, and not because an external process exited non-zero.
EndedWithoutProcessFailure ==
    /\ pc = "done"
    /\ status \notin {"CalledProcessError",
                      "Exception: Error occurred in decoding process!",
                      "Exception: Error occurred in encoding process!"}

\* C3: in the scenario run with every process exiting zero, a chapter file
\* of three renumbered entries is written, then one audio pair runs, then
\* the av1 pass-1 pair writing to the null sink, then the av1 pass-2 pair
\* writing video.ivf, then one mux naming the chapter file, video.ivf and
\* the opus artifact; and the run succeeds.
C3_EndToEndScenario ==
    (ScenarioRun /\ EndedWithoutProcessFailure) =>
        LET ev == PipelineEvents(launched)
        IN  /\ status = "return 0"
            /\ chapter_file.written
            /\ [i \in DOMAIN chapter_file.text |-> chapter_file.text[i].idx]
                   = <<"01", "01", "02", "02", "03", "03">>
            /\ [i \in DOMAIN ev |-> ev[i].proc]
                   = <<"decode", "encode", "decode", "encode", "decode", "encode", "mux">>
            /\ ev[2].cmd[1] = "opusenc"
            /\ WritesTo(ev[4].cmd, devnull) /\ ~WritesTo(ev[4].cmd, join(WorkDir, "video.ivf"))
            /\ WritesTo(ev[6].cmd, join(WorkDir, "video.ivf"))
            /\ {join(WorkDir, "chapters"), join(WorkDir, "video.ivf"),
                join(WorkDir, "audio.opus")} \subseteq Range(ev[7].cmd)

\* The three pass configurations of a video builder.
PassConfiguration(cur_pass, stat_path) ==
    \/ (IsNone(cur_pass) /\ stat_path = NoPath)
    \/ (~IsNone(cur_pass) /\ cur_pass.v \in {1, 2} /\ stat_path # NoPath)

\* C4: a video builder returns a command for no pass without a stats path,
\* for pass 1 with a stats path and for pass 2 with a stats path, and
\* rejects every other combination.
C4_PassConfigurations ==
    (ret.done /\ call.fn \in VideoBuilders) =>
        (ret.exc = "none" <=> PassConfiguration(call.cur_pass, call.stat_path))

\* C5: in a two-pass run whose video step has built an encoder command, the
\* command is that of pass 1 or of pass 2; the pass-1 command writes to the
\* null sink and not to the final path; the pass-2 command writes to the
\* final path and names the stats file that the pass-1 command named.
C5_TwoPassCommands ==
    (cl.two_pass /\ cl.video_codec \in {"av1", "h264", "vp9", "vp8"} /\ video_path # NoPath) =>
        /\ ~IsNone(video.cur_pass)
        /\ video.cur_pass.v = 1 =>
              /\ WritesTo(enc_cmd, devnull)
              /\ ~WritesTo(enc_cmd, video_path)
        /\ video.cur_pass.v = 2 =>
              /\ WritesTo(enc_cmd, video_path)
              /\ \E i \in DOMAIN launched, p \in {join(WorkDir, n) :
                                                   n \in {"av1_stats", "x264_stats",
                                                          "vp9_stats", "vp8_stats"}} :
                    /\ launched[i].proc = "encode"
                    /\ WritesTo(launched[i].cmd, devnull)
                    /\ UsesStats(launched[i].cmd, p)
                    /\ UsesStats(enc_cmd, p)

\* C6: a run with audio codec copy and a chapter range starts no external
\* process, and does not end in success.
C6_CopyWithRangeFailsBeforeAnyProcess ==
    (cl.audio_codec = "copy" /\ (~IsNone(cl.start_chapter) \/ ~IsNone(cl.end_chapter))) =>
        /\ launched = <<>>
        /\ status # "return 0"

\* C7: the aac, mp3, vorbis, av1 and h264 builders raise, and return no
\* command, when given both a quality and a bitrate (and, for video, no
\* pass).
C7_QualityAndBitrateRejected ==
    (/\ ret.done
     /\ call.fn \in {"get_encode_aac_command", "get_encode_mp3_command",
                     "get_encode_vorbis_command", "get_encode_av1_command",
                     "get_encode_h264_command"}
     /\ ~IsNone(call.quality) /\ ~IsNone(call.bitrate)
     /\ (call.fn \in VideoBuilders => IsNone(call.cur_pass) /\ call.stat_path = NoPath)) =>
        (ret.exc # "none" /\ ret.cmd = <<>>)

\* C8: the vp9, vp8 and opus builders, given both a quality and a bitrate
\* (and, for video, no pass), return a command that holds the
\* constrained-quality mode flag, a flag with the quality value and a flag
\* with the bitrate value.
C8_ConstrainedQualityFlags ==
    (/\ ret.done
     /\ call.fn \in {"get_encode_vp9_command", "get_encode_vp8_command",
                     "get_encode_opus_command"}
     /\ ~IsNone(call.quality) /\ ~IsNone(call.bitrate)
     /\ (call.fn # "get_encode_opus_command" => IsNone(call.cur_pass) /\ call.stat_path = NoPath)) =>
        /\ ret.exc = "none"
        /\ IF call.fn = "get_encode_opus_command"
           THEN /\ "--vcbr" \in Range(ret.cmd)
                /\ \E i \in DOMAIN ret.cmd :
                      ret.cmd[i] = "--bitrate" /\ i < Len(ret.cmd)
                      /\ ret.cmd[i + 1] = str(call.bitrate)
                /\ \E i \in DOMAIN ret.cmd :
                      ret.cmd[i] \in {str(call.quality), ToString(call.quality.v)}
           ELSE /\ "--end-usage=cq" \in Range(ret.cmd)
                /\ ("--cq-level=" \o ToString(round(630 - 63 * call.quality.v, 10)))
                       \in Range(ret.cmd)
                /\ ("--target-bitrate=" \o str(call.bitrate)) \in Range(ret.cmd)

\* What a chapter line says: its kind, its index, and its start in
\* milliseconds, the number of its label, or its title.
Entry(line) ==
    [kind |-> line.kind,
     index |-> int[line.idx],
     start |-> IF line.kind = "time"
               THEN timedelta(int[line.hh], int[line.mm], int[line.ss], int[line.ms]) ELSE 0,
     number |-> IF line.kind = "label" THEN int[line.name] ELSE 0,
     title |-> IF line.kind = "title" THEN line.name ELSE ""]
Entries(text) == [i \in DOMAIN text |-> Entry(text[i])]

\* The start of chapter s in a text, in milliseconds.
StartOf(text, s) ==
    LET k == CHOOSE k \in DOMAIN text : text[k].kind = "time" /\ int[text[k].idx] = s
    IN  Entry(text[k]).start

\* The entries of the range [s, e] of a text, renumbered from 1 and rebased
\* to the start of chapter s.
RECURSIVE SlicedEntries(_, _, _, _, _)
SlicedEntries(entries, chap_start, chap_end, by_index, by_time) ==
    IF entries = <<>> THEN <<>>
    ELSE LET x == Head(entries)
         IN  (IF InRange(x.index, chap_start, chap_end)
              THEN <<[x EXCEPT !.index = x.index - by_index,
                               !.start = IF x.kind = "time" THEN x.start - by_time ELSE 0,
                               !.number = IF x.kind = "label" THEN x.number - by_index ELSE 0]>>
              ELSE <<>>)
             \o SlicedEntries(Tail(entries), chap_start, chap_end, by_index, by_time)

\* The start chapter is absent or is a chapter of the text.
StartPresent(text, chap_start) ==
    IsNone(chap_start) \/ (1 <= chap_start.v /\ 2 * chap_start.v <= Len(text))

\* C9: for a range [s, e] whose start, if given, is a chapter of the text,
\* extract_chapters writes exactly the records of the range, in order, with
\* index i-(s-1) in the timestamp record, in the title record and in a
\* 'Chapter N' label, and with each timestamp reduced by that of chapter s.
C9_SliceRenumbersAndRebases ==
    (ret.done /\ call.fn = "extract_chapters" /\ StartPresent(call.chapters, call.chap_start)) =>
        /\ ret.exc = "none"
        /\ Entries(ret.text)
             = SlicedEntries(Entries(call.chapters), call.chap_start, call.chap_end,
                   IF IsNone(call.chap_start) THEN 0 ELSE call.chap_start.v - 1,
                   IF IsNone(call.chap_start) THEN 0
                   ELSE StartOf(call.chapters, call.chap_start.v))

\* C10: with neither a start nor an end chapter, extract_chapters writes
\* entries with the indices, timestamps and titles of the input, a
\* 'Chapter N' label keeping the text of its title.
C10_NoRangeIsIdentity ==
    (/\ ret.done /\ call.fn = "extract_chapters"
     /\ IsNone(call.chap_start) /\ IsNone(call.chap_end)) =>
        /\ ret.exc = "none"
        /\ Entries(ret.text) = Entries(call.chapters)
        /\ \A i \in DOMAIN ret.text : ret.text[i].name = call.chapters[i].name

\* The stages of the filter chain, in their fixed order.
StageOrder ==
    <<"format", "telecine", "deinterlace", "crop", "scale", "post-process", "denoise",
      "duplication">>
StageIndex(name) == CHOOSE k \in DOMAIN StageOrder : StageOrder[k] = name

\* The stage a field of the -vf argument names, "unnamed" if it names none.
StageOf(field, c) ==
    CASE field = "format=i420" -> "format"
      [] field = "filmdint=fast=0" -> "telecine"
      [] c.crop # <<>> /\ field = "filmdint=fast=0/crop=" \o JoinInts(":", c.crop) -> "telecine"
      [] field = "yadif=1" -> "deinterlace"
      [] c.crop # <<>> /\ field = "crop=" \o JoinInts(":", c.crop) -> "crop"
      [] c.scale # <<>> /\ field = "scale=" \o JoinInts(":", c.scale) -> "scale"
      [] field = "pp=ha/va/dr" -> "post-process"
      [] field = "hqdn3d" -> "denoise"
      [] field = "harddup" -> "duplication"
      [] OTHER -> "unnamed"
Stages(fields, c) == [i \in DOMAIN fields |-> StageOf(fields[i], c)]

\* Whether the option of a stage was requested in the call c.
Requested(name, c) ==
    CASE name = "format" -> TRUE
      [] name = "telecine" -> c.ivtc
      [] name = "deinterlace" -> c.deint
      [] name = "crop" -> c.crop # <<>>
      [] name = "scale" -> c.scale # <<>>
      [] name = "post-process" -> c.pp
      [] name = "denoise" -> c.denoise
      [] name = "duplication" -> TRUE

\* C11: the filter chain get_decode_video_command builds is a list of named
\* stages in the order format, telecine, deinterlace, crop, scale,
\* post-process, denoise, duplication: format is first, duplication is
\* present and last, and a stage appears only if its option was requested.
C11_FilterChainOrder ==
    (ret.done /\ call.fn = "get_decode_video_command") =>
        LET st == Stages(ret.filters, call)
        IN  /\ \A i \in DOMAIN st : st[i] \in Range(StageOrder)
            /\ \A i, j \in DOMAIN st :
                   (i < j /\ st[i] \in Range(StageOrder) /\ st[j] \in Range(StageOrder))
                       => StageIndex(st[i]) < StageIndex(st[j])
            /\ st[1] = "format" /\ st[Len(st)] = "duplication"
            /\ \A i \in DOMAIN st : st[i] \in Range(StageOrder) => Requested(st[i], call)

\* The fields of a filter list that carry the crop rectangle of the call c.
CropFields(fields, c) ==
    {i \in DOMAIN fields :
        fields[i] \in {"crop=" \o JoinInts(":", c.crop),
                       "filmdint=fast=0/crop=" \o JoinInts(":", c.crop)}}

\* The values that follow -ofps in a command.
OutputRates(cmd) == {cmd[i + 1] : i \in {k \in DOMAIN cmd : k < Len(cmd) /\ cmd[k] = "-ofps"}}

\* C12: the crop is placed once if requested and never otherwise: inside
\* the telecine stage when inverse telecine is requested too, as a stage of
\* its own when it is not; inverse telecine sets the output rate to
\* 24000/1001 whatever rate was forced, and without it a forced rate is
\* passed on as given.
C12_CropPlacementAndRate ==
    (ret.done /\ call.fn = "get_decode_video_command") =>
        /\ call.crop = <<>> =>
               \A i \in DOMAIN ret.filters :
                   \/ ret.filters[i] = ""
                   \/ StageOf(ret.filters[i], call) \in Range(StageOrder) \ {"crop"}
        /\ call.crop # <<>> =>
               /\ Cardinality(CropFields(ret.filters, call)) = 1
               /\ \A i \in CropFields(ret.filters, call) :
                      StageOf(ret.filters[i], call) = (IF call.ivtc THEN "telecine" ELSE "crop")
        /\ call.ivtc => OutputRates(ret.cmd) = {"24000/1001"}
        /\ (~call.ivtc /\ call.force_rate # <<>>) =>
               OutputRates(ret.cmd) = {ToString(call.force_rate[1]) \o "/"
                                          \o ToString(call.force_rate[2])}
        /\ (~call.ivtc /\ call.force_rate = <<>>) => OutputRates(ret.cmd) = {}

\* C12 witness: a call with inverse telecine, a crop and a forced rate has
\* returned.
C12_Witness ==
    /\ ret.done /\ call.fn = "get_decode_video_command"
    /\ call.ivtc /\ call.crop # <<>> /\ call.force_rate = <<25, 1>>
    /\ "filmdint=fast=0/crop=704:464:8:8" \in Range(ret.filters)

\* The mux step has been reached: main() is about to call the muxer, or has.
MuxReached == pc = "mux" \/ \E i \in DOMAIN launched : launched[i].proc = "mux"

\* What main() hands to the muxer fits the container.
MuxMetadataFits ==
    MuxReached =>
        /\ chapters_path # NoPath => out_container \in {"mkv", "mp4"}
        /\ attachments_path # NoPath => out_container = "mkv"
        /\ subtitles_path # NoPath => out_container = "mkv"
        /\ \A i \in DOMAIN launched :
               launched[i].proc = "mux" =>
                   /\ join(WorkDir, "chapters") \in Range(launched[i].cmd)
                          => out_container \in {"mkv", "mp4"}
                   /\ ({"--attach-file", join(WorkDir, "subtitles"),
                         join(WorkDir, "subtitles") \o ".idx"} \cap Range(launched[i].cmd)) # {}
                          => out_container = "mkv"

\* A metadata step that finds a feature the container cannot carry warns,
\* starts no process, sets no path and goes on to the next step.
SkipsWithWarning ==
    /\ (pc = "chapters" /\ extractor.has_chapters /\ ~cl.no_chapters
            /\ out_container = "webm") =>
           /\ warnings' = Append(warnings, "chapters") /\ launched' = launched
           /\ chapters_path' = NoPath /\ pc' = "attachments"
    /\ (pc = "attachments" /\ extractor.attachment_cnt > 0 /\ ~cl.no_attachments
            /\ out_container \in {"webm", "mp4"}) =>
           /\ warnings' = Append(warnings, "attachments") /\ launched' = launched
           /\ attachments_path' = NoPath /\ pc' = "subtitles"
    /\ (pc = "subtitles" /\ extractor.has_subtitles /\ ~cl.no_subtitles /\ ~cl.hardsub
            /\ out_container \in {"webm", "mp4"}) =>
           /\ warnings' = Append(warnings, "subtitles") /\ launched' = launched
           /\ subtitles_path' = NoPath /\ pc' = "audio"

\* C13: in a run that reaches the mux step a chapters path is passed only
\* for mkv and mp4, an attachments directory and a subtitle path only for
\* mkv, and none of them for webm; a feature the container cannot carry is
\* skipped with a warning and the run goes on.
C13_ContainerCapabilities == []MuxMetadataFits /\ [][SkipsWithWarning]_vars

\* C13 witness: a webm run of a source with chapters, attachments and
\* subtitles warned three times, ran the muxer and returned 0.
C13_Witness ==
    /\ pc = "done" /\ status = "return 0" /\ out_container = "webm"
    /\ warnings = <<"chapters", "attachments", "subtitles">>
    /\ \E i \in DOMAIN launched : launched[i].proc = "mux"

\* The size and the rate a Blu-ray run takes from the command line alone.
CallerDimensions ==
    IF cl.scale # <<>> THEN cl.scale
    ELSE IF cl.crop # <<>> THEN <<cl.crop[1], cl.crop[2]>>
    ELSE cl.size
CallerRate ==
    LET n == IF cl.ivtc THEN 24000 ELSE cl.rate[1]
        d == IF cl.ivtc THEN 1001 ELSE cl.rate[2]
    IN  Fraction(IF cl.deinterlace THEN 2 * n ELSE n, d)

\* C14: a Blu-ray run without a forced size or without a forced rate ends
\* with status 1 before any process, the probe included, is launched; a
\* Blu-ray run that goes on never reads the fields the probe leaves unset,
\* and gives the encoder the size and rate the command line determines.
C14_BlurayFailFast ==
    cl.bluray =>
        /\ (cl.size = <<>> \/ cl.rate = <<>>) =>
               /\ launched = <<>>
               /\ pc \in {"verify", "done"}
               /\ pc = "done" => status = "return 1"
        /\ status # "AttributeError"
        /\ pc \in {"video_encode", "video_transcode", "mux"} =>
               /\ video.final_dimensions = CallerDimensions
               /\ video.final_rate = CallerRate
        /\ \A i \in DOMAIN launched :
               (launched[i].proc = "encode" /\ launched[i].cmd[1] = "SvtAv1EncApp") =>
                   \E k \in 1..(Len(launched[i].cmd) - 7) :
                       SubSeq(launched[i].cmd, k, k + 7)
                           = <<"-w", ToString(CallerDimensions[1]),
                               "-h", ToString(CallerDimensions[2]),
                               "--fps-num", ToString(CallerRate.numerator),
                               "--fps-denom", ToString(CallerRate.denominator)>>

\* C14 witness: a Blu-ray run with a forced size and no forced rate has
\* ended with status 1 and launched nothing.
C14_Witness ==
    /\ cl.bluray /\ cl.size # <<>> /\ cl.rate = <<>>
    /\ pc = "done" /\ status = "return 1" /\ launched = <<>>

\* main() has got past the choice of the container (lines 574-590).
ContainerStepDone ==
    /\ pc \notin {"verify", "container"}
    /\ ~(cl.bluray /\ (cl.size = <<>> \/ cl.rate = <<>>))

\* C15: with the container option given, the output container is the one
\* given and the output path ends in its suffix, whatever the suffix of the
\* -o path; without the option the suffix of the -o path decides.
C15_ContainerOption ==
    ContainerStepDone =>
        IF cl.container # "None"
        THEN /\ out_container = cl.container
             /\ output = cl.output_prefix \o "." \o cl.container
        ELSE \/ /\ lower(cl.output_suffix) \in {".mkv", ".webm", ".mp4"}
                /\ "." \o out_container = lower(cl.output_suffix)
                /\ output = cl.output_prefix \o cl.output_suffix
             \/ /\ lower(cl.output_suffix) \notin {".mkv", ".webm", ".mp4"}
                /\ pc = "done" /\ status = "return 1"

\* The video codecs main() has an encoder for (lines 746-812).
EncodedVideoCodecs == {"av1", "h264", "vp9", "vp8"}

\* C16: a run with audio codec copy and no chapter range, single-pass with
\* a video codec that is encoded and no failing process, extracts the audio
\* stream into the work directory, runs no audio decode/encode pair, goes
\* on to the video transcode and the mux with the extracted audio, and
\* returns 0.
C16_AudioCopyWithoutRange ==
    (/\ cl.audio_codec = "copy" /\ IsNone(cl.start_chapter) /\ IsNone(cl.end_chapter)
     /\ ~cl.two_pass /\ cl.video_codec \in EncodedVideoCodecs
     /\ EndedWithoutProcessFailure) =>
        /\ status = "return 0"
        /\ \E i \in DOMAIN launched : launched[i].proc = "extract_audio"
        /\ \A i \in DOMAIN tc_log : tc_log[i].step # "audio_transcode"
        /\ audio_path = join(WorkDir, "audio")
        /\ \E i \in DOMAIN launched :
               launched[i].proc = "mux" /\ join(WorkDir, "audio") \in Range(launched[i].cmd)

\* The step of the pipeline a launched process belongs to: 1 probe,
\* 2 metadata extraction, 3 audio, 4 video, 5 mux.
StepOf(e) ==
    CASE e.proc \in {"probe", "identify"} -> 1
      [] e.proc \in {"extract_chapters", "extract_attachments", "extract_subtitles"} -> 2
      [] e.proc = "extract_audio" -> 3
      [] e.proc = "decode" -> IF e.cmd[1] = "mencoder" THEN 4 ELSE 3
      [] e.proc = "encode" -> IF e.cmd[1] \in {"SvtAv1EncApp", "x264", "vpxenc"} THEN 4 ELSE 3
      [] e.proc = "mux" -> 5

\* No process of a transcode pair is running.
NoneRunning == dec_proc.st # "running" /\ enc_proc.st # "running"

\* A transcode of the given step has ended with both processes exited zero.
Succeeded(step) ==
    \E i \in DOMAIN tc_log :
        /\ tc_log[i].step = step /\ tc_log[i].error = "none"
        /\ tc_log[i].dec.st = "exited" /\ tc_log[i].dec.rc = 0
        /\ tc_log[i].enc.st = "exited" /\ tc_log[i].enc.rc = 0

\* The audio step has produced its artifact: by a transcode, or for codec
\* copy by the extraction of the stream.
AudioSucceeded ==
    \/ Succeeded("audio_transcode")
    \/ /\ cl.audio_codec = "copy" /\ audio_path # NoPath
       /\ \E i \in DOMAIN launched : launched[i].proc = "extract_audio"

\* C17: processes are launched in the order probe, metadata extraction,
\* audio, video, mux; whenever main() is about to launch a process no
\* process of an earlier step is running, so at most one decode/encode pair
\* is alive; pass 2 is entered only after the pass-1 pair exited zero; and
\* the muxer is called only after the audio and the video step succeeded.
\* (No run gets as far as pass 2: the builders reject a pass given with a
\* statistics path.)
C17_StepsRunInSequence ==
    /\ \A i, j \in DOMAIN launched : i < j => StepOf(launched[i]) <= StepOf(launched[j])
    /\ (tc = "popen_dec" \/ pc \in {"video_prepare", "video_encode", "mux"}) => NoneRunning
    /\ tc = "popen_enc" => enc_proc.st # "running"
    /\ (pc = "video_encode" /\ video.cur_pass = PyInt(1)) => Succeeded("video_transcode")
    /\ video.cur_pass = PyInt(2) => Succeeded("video_transcode")
    /\ pc \in {"video_prepare", "video_encode", "video_transcode"} => AudioSucceeded
    /\ MuxReached => AudioSucceeded /\ Succeeded("video_transcode")

\* C17 witness: the video decoder has been launched after an audio pair that
\* exited zero, and the video pair then succeeded and the muxer ran.
C17_Witness ==
    /\ \E i \in DOMAIN launched : launched[i].proc = "mux"
    /\ Len(tc_log) = 2 /\ tc_log[1].step = "audio_transcode"
    /\ tc_log[2].step = "video_transcode"
    /\ <<"decode", "encode", "decode", "encode", "mux">>
           = [i \in DOMAIN PipelineEvents(launched) |-> PipelineEvents(launched)[i].proc]

\* C18: once main() has ended, by return or by exception, the work
\* directory it created is gone; it exists only while the steps inside the
\* with block are running.
C18_WorkDirRemoved ==
    /\ pc = "done" => work_dir \in {"none", "removed"}
    /\ work_dir = "removed" => pc = "done"
    /\ work_dir = "present" =>
           pc \in {"chapters", "attachments", "subtitles", "audio", "audio_transcode",
                   "video_prepare", "video_encode", "video_transcode", "mux"}
    /\ (pc = "done" /\ launched # <<>>
            /\ launched[Len(launched)].proc \notin {"probe", "identify"}) =>
           work_dir = "removed"

\* C18 witness: a run that failed inside the pipeline, in a transcode step,
\* has ended with the work directory removed.
C18_Witness ==
    /\ pc = "done" /\ work_dir = "removed"
    /\ status = "Exception: Error occurred in encoding process!"

\* The command has the flag immediately followed by the value.
HasFlag(cmd, flag, value) ==
    \E i \in DOMAIN cmd : i < Len(cmd) /\ cmd[i] = flag /\ cmd[i + 1] = value

\* C19: in a run with audio codec mp3 the audio quality q given on the
\* command line reaches lame as -V round(10 - q) and never as -b, and the
\* audio bitrate b reaches it as -b b and never as -V.
C19_Mp3QualityAndBitrateRoles ==
    cl.audio_codec = "mp3" =>
        \A i \in DOMAIN launched :
            (launched[i].proc = "encode" /\ launched[i].cmd[1] = "lame") =>
                /\ ~IsNone(cl.audio_quality) =>
                       /\ HasFlag(launched[i].cmd, "-V", ToString(10 - cl.audio_quality.v))
                       /\ "-b" \notin Range(launched[i].cmd)
                /\ ~IsNone(cl.audio_bitrate) =>
                       /\ HasFlag(launched[i].cmd, "-b", str(cl.audio_bitrate))
                       /\ "-V" \notin Range(launched[i].cmd)

\* C20: whatever video codec the command line names, a single-pass run
\* that has carried out the audio transcode goes on to launch a video
\* encoder: a codec that gets no video encode step is refused before any
\* decode/encode pair is launched, not after the audio transcode.
C20_VideoCodecEncodedOrRejectedEarly ==
    (pc = "done" /\ ~cl.two_pass /\ Succeeded("audio_transcode")) =>
        \E i \in DOMAIN launched : launched[i].proc = "encode" /\ StepOf(launched[i]) = 4

====
